---- MODULE Spec2Model ----
(***************************************************************************)
(* Haunt: a market-data server.  A Scheduler polls an upstream provider,   *)
(* writes each result to a TTL Cache and announces it to its listeners;    *)
(* the WebSocket layer keeps a RoomManager (symbol rooms, a market room    *)
(* and a per-client subscription index) and fans the announcements out to  *)
(* the subscribed connections.                                             *)
(*                                                                         *)
(* Four specifications share the variables:                                *)
(*   SpecCache     - the Cache class alone, under a clock;                 *)
(*   SpecRooms     - the RoomManager class alone;                          *)
(*   SpecFanout    - connections, handlers and the refreshes begun by      *)
(*                   scheduler.start(), within one instant;                *)
(*   SpecScheduler - Scheduler, its timers, the Cache and the clock.       *)
(* Time is counted in units of 15 000 ms.                                  *)
(***************************************************************************)
EXTENDS Integers, Sequences, FiniteSets, Bags, TLC

VARIABLES
    store,                \* Cache.store: key -> CacheEntry (a Map: partial)
    now,                  \* Date.now()
    cleanupInterval,      \* Cache.cleanupInterval is armed (non-null)
    assetRooms,           \* RoomManager.assetRooms: symbol -> set of clients
    marketRoom,           \* RoomManager.marketRoom: set of clients
    clientSubscriptions,  \* RoomManager.clientSubscriptions: client -> symbols
    readyState,           \* per WebSocket client: its connection state
    isRunning,            \* Scheduler.isRunning
    intervals,            \* Scheduler.intervals: the armed recurring timers
    callbacks,            \* Scheduler.callbacks: the registered listeners
    inflight,             \* provider calls awaiting their response
    frames,               \* client -> frames written to it by the last step
    ret,                  \* what the last operation did and returned
    lastSet               \* history: key -> the last Cache.set applied to it

cacheVars == <<store, now, cleanupInterval>>
roomVars  == <<assetRooms, marketRoom, clientSubscriptions>>
schedVars == <<isRunning, intervals, callbacks, inflight>>
vars == <<store, now, cleanupInterval, assetRooms, marketRoom,
          clientSubscriptions, readyState, isRunning, intervals, callbacks,
          inflight, frames, ret, lastSet>>

(***************************************************************************)
(* Bounds of the model.                                                    *)
(***************************************************************************)
MaxTime == 3        \* the clock stops advancing here
MaxTtl == 2         \* ttl arguments of Cache.set range over 0..MaxTtl
MaxAssets == 2      \* longest symbol list passed to subscribe/unsubscribe
MaxInflight == 3    \* provider calls that may await their response at once

(***************************************************************************)
(* JavaScript Map helpers: a Map is a function on the set of its keys.     *)
(***************************************************************************)
EmptyMap == [x \in {} |-> x]
MapHas(m, k) == k \in DOMAIN m
MapSet(m, k, v) == [x \in (DOMAIN m) \cup {k} |-> IF x = k THEN v ELSE m[x]]
MapDelete(m, k) == [x \in (DOMAIN m) \ {k} |-> m[x]]

(***************************************************************************)
(*                               Cache                                     *)
(***************************************************************************)
Keys == {"k1", "k2"}
Values == {"v1", "v2"}
Ttls == 0..MaxTtl
Undefined == "undefined"

\* The result of a lookup: the store afterwards and the value returned.
Miss(s) == [store |-> s, hit |-> FALSE, data |-> Undefined]

\* Cache.get: absent -> undefined; expired -> evicted, undefined; else data.
\* Faulty variant: no expiry test.
Cache_get_noExpiry(s, t, key) ==
    IF ~MapHas(s, key) THEN Miss(s)
    ELSE [store |-> s, hit |-> TRUE, data |-> s[key].data]

Cache_get(s, t, key) ==
    IF ~MapHas(s, key) THEN Miss(s)
    ELSE IF t > s[key].expiresAt THEN Miss(MapDelete(s, key))
    ELSE [store |-> s, hit |-> TRUE, data |-> s[key].data]

\* Cache.set: a fresh entry replaces whatever the key held.
\* Faulty variant: an overwrite keeps the later of the two expiries.
Cache_set_keepLongest(s, t, key, data, ttl) ==
    MapSet(s, key,
           [data |-> data,
            expiresAt |-> IF MapHas(s, key) /\ s[key].expiresAt > t + ttl
                          THEN s[key].expiresAt ELSE t + ttl,
            createdAt |-> t])

Cache_set(s, t, key, data, ttl) ==
    MapSet(s, key, [data |-> data, expiresAt |-> t + ttl, createdAt |-> t])

\* Cache.has: like get, returning a boolean.
\* Faulty variant: presence alone decides.
Cache_has_presentOnly(s, t, key) == [store |-> s, result |-> MapHas(s, key)]

Cache_has(s, t, key) ==
    IF ~MapHas(s, key) THEN [store |-> s, result |-> FALSE]
    ELSE IF t > s[key].expiresAt
         THEN [store |-> MapDelete(s, key), result |-> FALSE]
    ELSE [store |-> s, result |-> TRUE]

\* Cache.delete: Map.delete reports whether the key was present.
Cache_delete(s, key) == [store |-> MapDelete(s, key), result |-> MapHas(s, key)]

\* Cache.clear
Cache_clear(s) == EmptyMap

\* Cache.ttl: the time left, or -1 when the key is absent or no time is left.
Cache_ttl(s, t, key) ==
    IF ~MapHas(s, key) THEN -1
    ELSE LET remaining == s[key].expiresAt - t
         IN IF remaining > 0 THEN remaining ELSE -1

\* Cache.cleanup: the sweep drops every entry with now > expiresAt.
\* Faulty variant: entries at their expiry instant are dropped as well.
Cache_cleanup_dropAtExpiry(s, t) ==
    [k \in {x \in DOMAIN s : ~(t >= s[x].expiresAt)} |-> s[k]]

Cache_cleanup(s, t) ==
    [k \in {x \in DOMAIN s : ~(t > s[x].expiresAt)} |-> s[k]]

\* lastSet[k]: the arguments and time of the last set(k), whether it replaced
\* an entry, and whether that entry held other data with a later expiry.
NoSet == [done |-> FALSE]

otherVars == <<assetRooms, marketRoom, clientSubscriptions, readyState,
               isRunning, intervals, callbacks, inflight, frames>>

\* ---- the operations of SpecCache, each recording what it returned ----
DoGet(key) ==
    LET r == Cache_get(store, now, key) IN
    /\ store' = r.store
    /\ ret' = [op |-> "get", key |-> key, hit |-> r.hit, data |-> r.data,
               expiresAt |-> IF MapHas(store, key)
                             THEN store[key].expiresAt ELSE -1]
    /\ UNCHANGED <<now, cleanupInterval, lastSet>>
    /\ UNCHANGED otherVars

DoSet(key, data, ttl) ==
    /\ store' = Cache_set(store, now, key, data, ttl)
    /\ ret' = [op |-> "set", key |-> key, hit |-> FALSE, data |-> data,
               expiresAt |-> now + ttl]
    /\ lastSet' = [lastSet EXCEPT ![key] =
                     [done |-> TRUE, data |-> data, ttl |-> ttl, at |-> now,
                      over |-> MapHas(store, key),
                      overOther |-> /\ MapHas(store, key)
                                    /\ store[key].data # data
                                    /\ store[key].expiresAt > now + ttl]]
    /\ UNCHANGED <<now, cleanupInterval>>
    /\ UNCHANGED otherVars

DoHas(key) ==
    LET r == Cache_has(store, now, key) IN
    /\ store' = r.store
    /\ ret' = [op |-> "has", key |-> key, hit |-> r.result, data |-> Undefined,
               expiresAt |-> -1]
    /\ UNCHANGED <<now, cleanupInterval, lastSet>>
    /\ UNCHANGED otherVars

DoDelete(key) ==
    LET r == Cache_delete(store, key) IN
    /\ store' = r.store
    /\ ret' = [op |-> "delete", key |-> key, hit |-> r.result,
               data |-> Undefined, expiresAt |-> -1]
    /\ lastSet' = [lastSet EXCEPT ![key] = NoSet]
    /\ UNCHANGED <<now, cleanupInterval>>
    /\ UNCHANGED otherVars

DoTtl(key) ==
    /\ ret' = [op |-> "ttl", key |-> key, hit |-> FALSE, data |-> Undefined,
               expiresAt |-> -1, remaining |-> Cache_ttl(store, now, key)]
    /\ UNCHANGED <<store, now, cleanupInterval, lastSet>>
    /\ UNCHANGED otherVars

DoClear ==
    /\ store' = Cache_clear(store)
    /\ ret' = [op |-> "clear", key |-> Undefined, hit |-> FALSE,
               data |-> Undefined, expiresAt |-> -1]
    /\ lastSet' = [k \in Keys |-> NoSet]
    /\ UNCHANGED <<now, cleanupInterval>>
    /\ UNCHANGED otherVars

\* The setInterval callback armed by the constructor.
\* hit tells whether the sweep removed anything (cleaned > 0).
DoCleanup ==
    /\ cleanupInterval
    /\ store' = Cache_cleanup(store, now)
    /\ ret' = [op |-> "cleanup", key |-> Undefined,
               hit |-> Cache_cleanup(store, now) # store,
               data |-> Undefined, expiresAt |-> -1]
    /\ UNCHANGED <<now, cleanupInterval, lastSet>>
    /\ UNCHANGED otherVars

\* Cache.destroy: disarm the sweep, then clear.
DoDestroy ==
    /\ cleanupInterval' = FALSE
    /\ store' = Cache_clear(store)
    /\ ret' = [op |-> "destroy", key |-> Undefined, hit |-> FALSE,
               data |-> Undefined, expiresAt |-> -1]
    /\ lastSet' = [k \in Keys |-> NoSet]
    /\ UNCHANGED now
    /\ UNCHANGED otherVars

NoRet == [op |-> "none", key |-> Undefined, hit |-> FALSE, data |-> Undefined,
          expiresAt |-> -1]

\* The clock advances; ret describes the last operation at the current time.
Tick ==
    /\ now < MaxTime
    /\ now' = now + 1
    /\ ret' = NoRet
    /\ UNCHANGED <<store, cleanupInterval, lastSet>>
    /\ UNCHANGED otherVars

IdleRooms ==
    /\ assetRooms = EmptyMap
    /\ marketRoom = {}
    /\ clientSubscriptions = EmptyMap

IdleScheduler ==
    /\ isRunning = FALSE
    /\ intervals = <<>>
    /\ callbacks = <<>>
    /\ inflight = EmptyBag

InitCache ==
    /\ store = EmptyMap
    /\ now = 0
    /\ cleanupInterval = TRUE
    /\ lastSet = [k \in Keys |-> NoSet]
    /\ ret = NoRet
    /\ IdleRooms
    /\ IdleScheduler
    /\ readyState = EmptyMap
    /\ frames = EmptyMap

NextCache ==
    \/ \E k \in Keys : DoGet(k)
    \/ \E k \in Keys, v \in Values, t \in Ttls : DoSet(k, v, t)
    \/ \E k \in Keys : DoHas(k)
    \/ \E k \in Keys : DoDelete(k)
    \/ \E k \in Keys : DoTtl(k)
    \/ DoClear
    \/ DoCleanup
    \/ DoDestroy
    \/ Tick

SpecCache == InitCache /\ [][NextCache]_vars

(***************************************************************************)
(*                             RoomManager                                 *)
(***************************************************************************)
Clients == {"c1", "c2"}
RawSymbols == {"btc", "BTC", "eth"}

\* String.prototype.toLowerCase on the symbols of the model.
ToLowerCase(a) ==
    CASE a = "BTC" -> "btc"
      [] a = "Btc" -> "btc"
      [] a = "ETH" -> "eth"
      [] a = "Eth" -> "eth"
      [] OTHER -> a

\* assets.map((a) => a.toLowerCase())
MapToLowerCase(assets) == [i \in 1..Len(assets) |-> ToLowerCase(assets[i])]

\* A JavaScript Set of strings keeps insertion order: a duplicate-free sequence.
Range(q) == {q[i] : i \in 1..Len(q)}
SetAdd(q, x) == IF x \in Range(q) THEN q ELSE Append(q, x)
SetDelete(q, x) == SelectSeq(q, LAMBDA y : y # x)

\* Symbol lists a caller may pass: every sequence of at most MaxAssets symbols.
AssetLists == UNION {[1..n -> RawSymbols] : n \in 0..MaxAssets}
\* An optional list: <<>> when the argument is omitted, <<list>> when given.
OptAssetLists == {<<>>} \cup {<<l>> : l \in AssetLists}

RM == [assetRooms |-> assetRooms, marketRoom |-> marketRoom,
       clientSubscriptions |-> clientSubscriptions]

\* The body of subscribe's for loop, from the i-th normalized asset on.
\* Faulty variant: the client's own set is a list, the asset is appended.
RECURSIVE SubscribeLoop_appendAlways(_, _, _, _, _)
SubscribeLoop_appendAlways(rm, client, normalizedAssets, i, subscribed) ==
    IF i > Len(normalizedAssets) THEN [rm |-> rm, result |-> subscribed]
    ELSE LET asset == normalizedAssets[i]
             room == IF MapHas(rm.assetRooms, asset)
                     THEN rm.assetRooms[asset] ELSE {}
             rm2 == [rm EXCEPT
                       !.assetRooms = MapSet(@, asset, room \cup {client}),
                       !.clientSubscriptions[client] = Append(@, asset)]
         IN SubscribeLoop_appendAlways(rm2, client, normalizedAssets, i + 1,
                                       Append(subscribed, asset))

RECURSIVE SubscribeLoop(_, _, _, _, _)
SubscribeLoop(rm, client, normalizedAssets, i, subscribed) ==
    IF i > Len(normalizedAssets) THEN [rm |-> rm, result |-> subscribed]
    ELSE LET asset == normalizedAssets[i]
             room == IF MapHas(rm.assetRooms, asset)
                     THEN rm.assetRooms[asset] ELSE {}
             rm2 == [rm EXCEPT
                       !.assetRooms = MapSet(@, asset, room \cup {client}),
                       !.clientSubscriptions[client] = SetAdd(@, asset)]
         IN SubscribeLoop(rm2, client, normalizedAssets, i + 1,
                          Append(subscribed, asset))

\* RoomManager.subscribe
\* Faulty variant: the assets are used as given.
RoomManager_subscribe_noNormalize(rm, client, assets) ==
    LET rm0 == IF MapHas(rm.clientSubscriptions, client) THEN rm
               ELSE [rm EXCEPT !.clientSubscriptions = MapSet(@, client, <<>>)]
        r == SubscribeLoop(rm0, client, assets, 1, <<>>)
    IN [rm |-> [r.rm EXCEPT !.marketRoom = @ \cup {client}],
        result |-> r.result]

RoomManager_subscribe(rm, client, assets) ==
    LET rm0 == IF MapHas(rm.clientSubscriptions, client) THEN rm
               ELSE [rm EXCEPT !.clientSubscriptions = MapSet(@, client, <<>>)]
        r == SubscribeLoop(rm0, client, MapToLowerCase(assets), 1, <<>>)
    IN [rm |-> [r.rm EXCEPT !.marketRoom = @ \cup {client}],
        result |-> r.result]

\* The body of unsubscribe's for loop, from the i-th asset to remove on.
\* Faulty variant: an emptied room is kept.
RECURSIVE UnsubscribeLoop_keepEmptyRooms(_, _, _, _, _)
UnsubscribeLoop_keepEmptyRooms(rm, client, assetsToRemove, i, unsubscribed) ==
    IF i > Len(assetsToRemove) THEN [rm |-> rm, result |-> unsubscribed]
    ELSE LET asset == assetsToRemove[i]
             rooms == rm.assetRooms
             rooms2 == IF ~MapHas(rooms, asset) THEN rooms
                       ELSE MapSet(rooms, asset, rooms[asset] \ {client})
             rm2 == [rm EXCEPT
                       !.assetRooms = rooms2,
                       !.clientSubscriptions[client] = SetDelete(@, asset)]
         IN UnsubscribeLoop_keepEmptyRooms(rm2, client, assetsToRemove, i + 1,
                                           Append(unsubscribed, asset))

\* Faulty variant: the asset stays in the client's own set.
RECURSIVE UnsubscribeLoop_keepReverse(_, _, _, _, _)
UnsubscribeLoop_keepReverse(rm, client, assetsToRemove, i, unsubscribed) ==
    IF i > Len(assetsToRemove) THEN [rm |-> rm, result |-> unsubscribed]
    ELSE LET asset == assetsToRemove[i]
             rooms == rm.assetRooms
             rooms2 == IF ~MapHas(rooms, asset) THEN rooms
                       ELSE IF rooms[asset] \ {client} = {}
                            THEN MapDelete(rooms, asset)
                       ELSE MapSet(rooms, asset, rooms[asset] \ {client})
             rm2 == [rm EXCEPT !.assetRooms = rooms2]
         IN UnsubscribeLoop_keepReverse(rm2, client, assetsToRemove, i + 1,
                                        Append(unsubscribed, asset))

RECURSIVE UnsubscribeLoop(_, _, _, _, _)
UnsubscribeLoop(rm, client, assetsToRemove, i, unsubscribed) ==
    IF i > Len(assetsToRemove) THEN [rm |-> rm, result |-> unsubscribed]
    ELSE LET asset == assetsToRemove[i]
             rooms == rm.assetRooms
             rooms2 == IF ~MapHas(rooms, asset) THEN rooms
                       ELSE IF rooms[asset] \ {client} = {}
                            THEN MapDelete(rooms, asset)
                       ELSE MapSet(rooms, asset, rooms[asset] \ {client})
             rm2 == [rm EXCEPT
                       !.assetRooms = rooms2,
                       !.clientSubscriptions[client] = SetDelete(@, asset)]
         IN UnsubscribeLoop(rm2, client, assetsToRemove, i + 1,
                            Append(unsubscribed, asset))

\* RoomManager.unsubscribe; assets is an optional list.
RoomManager_unsubscribe(rm, client, assets) ==
    IF ~MapHas(rm.clientSubscriptions, client) THEN [rm |-> rm, result |-> <<>>]
    ELSE LET assetsToRemove == IF Len(assets) > 0
                               THEN MapToLowerCase(assets[1])
                               ELSE rm.clientSubscriptions[client]
             r == UnsubscribeLoop(rm, client, assetsToRemove, 1, <<>>)
         IN [rm |-> IF Len(r.rm.clientSubscriptions[client]) = 0
                    THEN [r.rm EXCEPT !.marketRoom = @ \ {client}]
                    ELSE r.rm,
             result |-> r.result]

\* The for loop of removeClient over the client's own subscriptions.
\* Faulty variant: the room is deleted whether or not others remain in it.
RECURSIVE RemoveLoop_dropRoom(_, _, _, _)
RemoveLoop_dropRoom(rooms, client, clientSubs, i) ==
    IF i > Len(clientSubs) THEN rooms
    ELSE RemoveLoop_dropRoom(MapDelete(rooms, clientSubs[i]), client,
                             clientSubs, i + 1)

RECURSIVE RemoveLoop(_, _, _, _)
RemoveLoop(rooms, client, clientSubs, i) ==
    IF i > Len(clientSubs) THEN rooms
    ELSE LET asset == clientSubs[i]
             rooms2 == IF ~MapHas(rooms, asset) THEN rooms
                       ELSE IF rooms[asset] \ {client} = {}
                            THEN MapDelete(rooms, asset)
                       ELSE MapSet(rooms, asset, rooms[asset] \ {client})
         IN RemoveLoop(rooms2, client, clientSubs, i + 1)

\* RoomManager.removeClient
\* Faulty variant: the client's clientSubscriptions entry is kept.
RoomManager_removeClient_keepEntry(rm, client) ==
    LET rm1 == IF MapHas(rm.clientSubscriptions, client)
               THEN [rm EXCEPT
                       !.assetRooms = RemoveLoop(@, client,
                                         rm.clientSubscriptions[client], 1)]
               ELSE rm
    IN [rm1 EXCEPT !.marketRoom = @ \ {client}]

\* Faulty variant: the market room is not touched.
RoomManager_removeClient_keepMarketRoom(rm, client) ==
    IF MapHas(rm.clientSubscriptions, client)
    THEN [rm EXCEPT
            !.assetRooms = RemoveLoop(@, client,
                              rm.clientSubscriptions[client], 1),
            !.clientSubscriptions = MapDelete(@, client)]
    ELSE rm

RoomManager_removeClient(rm, client) ==
    LET rm1 == IF MapHas(rm.clientSubscriptions, client)
               THEN [rm EXCEPT
                       !.assetRooms = RemoveLoop(@, client,
                                         rm.clientSubscriptions[client], 1),
                       !.clientSubscriptions = MapDelete(@, client)]
               ELSE rm
    IN [rm1 EXCEPT !.marketRoom = @ \ {client}]

\* RoomManager.getAssetSubscribers
getAssetSubscribers(rm, asset) ==
    IF MapHas(rm.assetRooms, ToLowerCase(asset))
    THEN rm.assetRooms[ToLowerCase(asset)] ELSE {}

\* RoomManager.getMarketSubscribers
getMarketSubscribers(rm) == rm.marketRoom

\* RoomManager.getClientSubscriptions
getClientSubscriptions(rm, client) ==
    IF MapHas(rm.clientSubscriptions, client)
    THEN rm.clientSubscriptions[client] ELSE <<>>

\* RoomManager.stats
RoomManager_stats(rm) ==
    [totalClients |-> Cardinality(DOMAIN rm.clientSubscriptions),
     totalRooms |-> Cardinality(DOMAIN rm.assetRooms),
     rooms |-> [a \in DOMAIN rm.assetRooms |-> Cardinality(rm.assetRooms[a])]]

SetRM(rm) ==
    /\ assetRooms' = rm.assetRooms
    /\ marketRoom' = rm.marketRoom
    /\ clientSubscriptions' = rm.clientSubscriptions

notRoomVars == <<store, now, cleanupInterval, readyState, isRunning,
                 intervals, callbacks, inflight, frames, lastSet>>

\* ---- the operations of SpecRooms; ret keeps the call, its arguments, its
\* ---- result, the client's subscriptions and the rooms as they were before
\* ---- the call, and whether the client had a clientSubscriptions entry
Subscribe(client, assets) ==
    LET r == RoomManager_subscribe(RM, client, assets) IN
    /\ SetRM(r.rm)
    /\ ret' = [op |-> "subscribe", client |-> client, args |-> assets,
               result |-> r.result,
               subsBefore |-> getClientSubscriptions(RM, client),
               roomsBefore |-> DOMAIN assetRooms,
               known |-> MapHas(clientSubscriptions, client)]
    /\ UNCHANGED notRoomVars

Unsubscribe(client, assets) ==
    LET r == RoomManager_unsubscribe(RM, client, assets) IN
    /\ SetRM(r.rm)
    /\ ret' = [op |-> "unsubscribe", client |-> client, args |-> assets,
               result |-> r.result,
               subsBefore |-> getClientSubscriptions(RM, client),
               roomsBefore |-> DOMAIN assetRooms,
               known |-> MapHas(clientSubscriptions, client)]
    /\ UNCHANGED notRoomVars

RemoveClient(client) ==
    /\ SetRM(RoomManager_removeClient(RM, client))
    /\ ret' = [op |-> "removeClient", client |-> client, args |-> <<>>,
               result |-> <<>>,
               subsBefore |-> getClientSubscriptions(RM, client),
               roomsBefore |-> DOMAIN assetRooms,
               known |-> MapHas(clientSubscriptions, client)]
    /\ UNCHANGED notRoomVars

InitRooms ==
    /\ IdleRooms
    /\ ret = [op |-> "none", client |-> "none", args |-> <<>>,
              result |-> <<>>, subsBefore |-> <<>>, roomsBefore |-> {},
              known |-> FALSE]
    /\ store = EmptyMap
    /\ now = 0
    /\ cleanupInterval = TRUE
    /\ lastSet = [k \in Keys |-> NoSet]
    /\ IdleScheduler
    /\ readyState = EmptyMap
    /\ frames = EmptyMap

NextRooms ==
    \/ \E c \in Clients, l \in AssetLists : Subscribe(c, l)
    \/ \E c \in Clients, o \in OptAssetLists : Unsubscribe(c, o)
    \/ \E c \in Clients : RemoveClient(c)

SpecRooms == InitRooms /\ [][NextRooms]_vars

(***************************************************************************)
(*                 WebSocket handlers (websocket/handlers)                 *)
(***************************************************************************)
NoFrames == [c \in Clients |-> <<>>]

\* send: the message is written only if the client reports itself OPEN.
\* Faulty variant: readyState is not consulted.
send_ignoreReadyState(rs, client, message) == <<message>>

send(rs, client, message) ==
    IF rs[client] = "OPEN" THEN <<message>> ELSE <<>>

\* sendError
sendError(rs, client, error) == send(rs, client, [type |-> "error", error |-> error])

\* assets: z.array(z.string()).min(1).max(50)
SubscribeMinAssets == 1
SubscribeMaxAssets == 50

\* ClientMessageSchema.safeParse(message).success; an optional field is <<>>
\* when absent and <<value>> when present.
\* Faulty variant: no .max on the subscribe list.
ClientMessageSchema_success_noMax(message) ==
    \/ /\ message.type = "subscribe"
       /\ Len(message.assets) = 1
       /\ Len(message.assets[1]) >= SubscribeMinAssets
    \/ message.type = "unsubscribe"

ClientMessageSchema_success(message) ==
    \/ /\ message.type = "subscribe"
       /\ Len(message.assets) = 1
       /\ Len(message.assets[1]) >= SubscribeMinAssets
       /\ Len(message.assets[1]) <= SubscribeMaxAssets
    \/ message.type = "unsubscribe"

\* handleMessage: the registry afterwards and the frames written to client.
\* data is [json |-> FALSE] when JSON.parse throws, else the parsed message.
\* Faulty variant: the catch block does not return, the schema then rejects
\* the undefined message.
handleMessage_noReturn(rm, rs, client, data) ==
    IF ~data.json
    THEN [rm |-> rm, out |-> sendError(rs, client, "Invalid JSON")
                             \o sendError(rs, client, "Invalid message")]
    ELSE IF ~ClientMessageSchema_success(data)
    THEN [rm |-> rm, out |-> sendError(rs, client, "Invalid message")]
    ELSE IF data.type = "subscribe"
    THEN LET r == RoomManager_subscribe(rm, client, data.assets[1])
         IN [rm |-> r.rm,
             out |-> send(rs, client,
                          [type |-> "subscribed", assets |-> r.result])]
    ELSE LET r == RoomManager_unsubscribe(rm, client, data.assets)
         IN [rm |-> r.rm,
             out |-> send(rs, client,
                          [type |-> "unsubscribed", assets |-> r.result])]

handleMessage(rm, rs, client, data) ==
    IF ~data.json
    THEN [rm |-> rm, out |-> sendError(rs, client, "Invalid JSON")]
    ELSE IF ~ClientMessageSchema_success(data)
    THEN [rm |-> rm, out |-> sendError(rs, client, "Invalid message")]
    ELSE IF data.type = "subscribe"
    THEN LET r == RoomManager_subscribe(rm, client, data.assets[1])
         IN [rm |-> r.rm,
             out |-> send(rs, client,
                          [type |-> "subscribed", assets |-> r.result])]
    ELSE LET r == RoomManager_unsubscribe(rm, client, data.assets)
         IN [rm |-> r.rm,
             out |-> send(rs, client,
                          [type |-> "unsubscribed", assets |-> r.result])]

\* handleDisconnect
\* Faulty variant: the registry is not told.
handleDisconnect_logOnly(rm, client) == rm

handleDisconnect(rm, client) == RoomManager_removeClient(rm, client)

\* broadcastPriceUpdate: one send per client of the symbol's room.
\* Faulty variant: the market room is used instead of the symbol's room.
broadcastPriceUpdate_toMarketRoom(rm, rs, update) ==
    [c \in Clients |->
        IF c \in getMarketSubscribers(rm)
        THEN send(rs, c, [type |-> "price_update", data |-> update])
        ELSE <<>>]

\* Faulty variant: a member that is not OPEN aborts the whole broadcast.
broadcastPriceUpdate_abortOnClosed(rm, rs, update) ==
    [c \in Clients |->
        IF /\ c \in getAssetSubscribers(rm, update.symbol)
           /\ \A m \in getAssetSubscribers(rm, update.symbol) : rs[m] = "OPEN"
        THEN send(rs, c, [type |-> "price_update", data |-> update])
        ELSE <<>>]

broadcastPriceUpdate(rm, rs, update) ==
    [c \in Clients |->
        IF c \in getAssetSubscribers(rm, update.symbol)
        THEN send(rs, c, [type |-> "price_update", data |-> update])
        ELSE <<>>]

\* broadcastMarketUpdate: one send per client of the market room.
\* Faulty variant: every connection is sent the update.
broadcastMarketUpdate_toEveryone(rm, rs, update) ==
    [c \in Clients |-> send(rs, c, [type |-> "market_update", data |-> update])]

broadcastMarketUpdate(rm, rs, update) ==
    [c \in Clients |->
        IF c \in getMarketSubscribers(rm)
        THEN send(rs, c, [type |-> "market_update", data |-> update])
        ELSE <<>>]

\* f then g, per client.
FramesThen(f, g) == [c \in Clients |-> f[c] \o g[c]]

\* The listings case of the listener: a price update per asset, in order.
RECURSIVE ListingsFanout(_, _, _, _, _)
ListingsFanout(rm, rs, assets, i, t) ==
    IF i > Len(assets) THEN NoFrames
    ELSE FramesThen(
           broadcastPriceUpdate(rm, rs,
               [id |-> assets[i].id,
                symbol |-> ToLowerCase(assets[i].symbol),
                price |-> assets[i].price,
                timestamp |-> t]),
           ListingsFanout(rm, rs, assets, i + 1, t))

\* The listener initWebSocket registers with scheduler.onUpdate.
wsListener(rm, rs, type, data, t) ==
    IF type = "listings" THEN ListingsFanout(rm, rs, data, 1, t)
    ELSE IF type = "globalMetrics"
    THEN broadcastMarketUpdate(rm, rs,
             [totalMarketCap |-> data.totalMarketCap,
              btcDominance |-> data.btcDominance,
              timestamp |-> t])
    ELSE NoFrames

(***************************************************************************)
(*                     Scheduler (services/scheduler)                      *)
(***************************************************************************)
Kinds == {"listings", "globalMetrics", "fearGreed"}

\* CACHE_CONFIG ttl values, in units of 15 000 ms.
ListingsTtl == 2
GlobalMetricsTtl == 4
FearGreedTtl == 20
AssetTtl == 2

Ttl(kind) ==
    CASE kind = "listings" -> ListingsTtl
      [] kind = "globalMetrics" -> GlobalMetricsTtl
      [] kind = "fearGreed" -> FearGreedTtl

\* CACHE_KEYS
ListingsKey == "listings:1:100"
AssetKey(id) == IF id = 1 THEN "asset:1" ELSE "asset:2"
GlobalMetricsKey == "global-metrics"
FearGreedKey == "fear-greed"

KindKey(kind) ==
    CASE kind = "listings" -> ListingsKey
      [] kind = "globalMetrics" -> GlobalMetricsKey
      [] kind = "fearGreed" -> FearGreedKey

\* What the provider may answer (after cmcToAsset / cmcToGlobalMetrics /
\* cmcToFearGreed): the values a successful call of each kind can yield.
Btc(p) == [id |-> 1, symbol |-> "BTC", price |-> p]
Eth(p) == [id |-> 2, symbol |-> "ETH", price |-> p]
Payloads(kind) ==
    CASE kind = "listings" -> {<<Btc(1), Eth(1)>>}
      [] kind = "globalMetrics" -> {[totalMarketCap |-> 1, btcDominance |-> 1]}
      [] kind = "fearGreed" -> {[value |-> 50]}

\* The listeners: the WebSocket layer's, and one other subscriber.
WsListener == "ws"
Listeners == {WsListener, "aux", "aux2"}

\* The per-asset cache.set loop of refreshListings.
RECURSIVE CacheAssets(_, _, _, _)
CacheAssets(s, t, assets, i) ==
    IF i > Len(assets) THEN s
    ELSE CacheAssets(Cache_set(s, t, AssetKey(assets[i].id), assets[i], AssetTtl),
                     t, assets, i + 1)

\* The cache writes of a successful refresh of the kind.
RefreshWrites(s, t, kind, payload) ==
    IF kind = "listings"
    THEN CacheAssets(Cache_set(s, t, ListingsKey, payload, ListingsTtl),
                     t, payload, 1)
    ELSE Cache_set(s, t, KindKey(kind), payload, Ttl(kind))

\* Scheduler.notify: every registered callback is called, in order, inside
\* its own try/catch.  throws holds the callbacks that throw on this call;
\* invoked lists the callbacks called, threw tells whether notify itself threw.
\* Faulty variant: no try/catch, the first throwing callback ends the loop.
RECURSIVE notify_noCatch(_, _)
notify_noCatch(cbs, throws) ==
    IF cbs = <<>> THEN [invoked |-> <<>>, threw |-> FALSE]
    ELSE IF Head(cbs) \in throws THEN [invoked |-> <<Head(cbs)>>, threw |-> TRUE]
    ELSE LET r == notify_noCatch(Tail(cbs), throws)
         IN [invoked |-> <<Head(cbs)>> \o r.invoked, threw |-> r.threw]

notify(cbs, throws) == [invoked |-> cbs, threw |-> FALSE]

\* refreshListings / refreshGlobalMetrics / refreshFearGreed from the
\* provider's answer on: on success write the cache, then notify; on failure
\* (the await throws) log and rethrow.
\* store is the cache afterwards, atNotify the cache at the moment notify is
\* called, notified the callbacks called, resolved whether the promise the
\* refresh returns is fulfilled.
\* Faulty variant: the failure is not noticed.
Scheduler_refresh_alwaysWrites(s, t, cbs, kind, ok, payload, throws) ==
    LET w == RefreshWrites(s, t, kind, payload)
        n == notify(cbs, throws)
    IN [store |-> w, atNotify |-> w, notified |-> n.invoked,
        resolved |-> ~n.threw]

\* Faulty variant: the listeners are called before the cache is written.
Scheduler_refresh_notifyFirst(s, t, cbs, kind, ok, payload, throws) ==
    IF ok
    THEN LET n == notify(cbs, throws)
         IN [store |-> IF n.threw THEN s ELSE RefreshWrites(s, t, kind, payload),
             atNotify |-> s, notified |-> n.invoked, resolved |-> ~n.threw]
    ELSE [store |-> s, atNotify |-> s, notified |-> <<>>, resolved |-> FALSE]

Scheduler_refresh(s, t, cbs, kind, ok, payload, throws) ==
    IF ok
    THEN LET w == RefreshWrites(s, t, kind, payload)
             n == notify(cbs, throws)
         IN [store |-> w, atNotify |-> w, notified |-> n.invoked,
             resolved |-> ~n.threw]
    ELSE [store |-> s, atNotify |-> s, notified |-> <<>>, resolved |-> FALSE]

SCH == [isRunning |-> isRunning, intervals |-> intervals,
        callbacks |-> callbacks, inflight |-> inflight]

Call(kind, t) == [kind |-> kind, at |-> t]
Timer(kind, t) == [kind |-> kind, due |-> t + Ttl(kind)]

\* Scheduler.start: no-op when running; else three immediate fetches and
\* three setInterval timers.
\* Faulty variant: no isRunning test.
\* Faulty variant: the initial fetches are chained, only the first is issued
\* by start() itself.
Scheduler_start_chained(sch, t) ==
    IF sch.isRunning THEN sch
    ELSE [sch EXCEPT
            !.isRunning = TRUE,
            !.inflight = @ (+) SetToBag({Call("listings", t)}),
            !.intervals = @ \o <<Timer("listings", t),
                                 Timer("globalMetrics", t),
                                 Timer("fearGreed", t)>>]

\* Faulty variant: start() registers the WebSocket layer's listener again.
Scheduler_start_reRegister(sch, t) ==
    IF sch.isRunning THEN sch
    ELSE [sch EXCEPT
            !.isRunning = TRUE,
            !.callbacks = SetAdd(@, WsListener),
            !.inflight = @ (+) SetToBag({Call(k, t) : k \in Kinds}),
            !.intervals = @ \o <<Timer("listings", t),
                                 Timer("globalMetrics", t),
                                 Timer("fearGreed", t)>>]

Scheduler_start_noGuard(sch, t) ==
    [sch EXCEPT
       !.isRunning = TRUE,
       !.inflight = @ (+) SetToBag({Call(k, t) : k \in Kinds}),
       !.intervals = @ \o <<Timer("listings", t), Timer("globalMetrics", t),
                            Timer("fearGreed", t)>>]

Scheduler_start(sch, t) ==
    IF sch.isRunning THEN sch
    ELSE [sch EXCEPT
            !.isRunning = TRUE,
            !.inflight = @ (+) SetToBag({Call(k, t) : k \in Kinds}),
            !.intervals = @ \o <<Timer("listings", t),
                                 Timer("globalMetrics", t),
                                 Timer("fearGreed", t)>>]

\* Scheduler.stop: no-op when stopped; else clear timers and callbacks.
\* Faulty variant: the listeners are kept.
Scheduler_stop_keepListeners(sch) ==
    IF ~sch.isRunning THEN sch
    ELSE [sch EXCEPT !.isRunning = FALSE, !.intervals = <<>>]

\* Faulty variant: the timers are left armed.
Scheduler_stop_keepTimers(sch) ==
    IF ~sch.isRunning THEN sch
    ELSE [sch EXCEPT !.isRunning = FALSE, !.callbacks = <<>>]

Scheduler_stop(sch) ==
    IF ~sch.isRunning THEN sch
    ELSE [sch EXCEPT !.isRunning = FALSE, !.intervals = <<>>,
                     !.callbacks = <<>>]

\* Scheduler.onUpdate and the function it returns.
\* Faulty variant: the returned function clears the whole set.
Scheduler_offUpdate_clearAll(sch, cb) == [sch EXCEPT !.callbacks = <<>>]

Scheduler_onUpdate(sch, cb) == [sch EXCEPT !.callbacks = SetAdd(@, cb)]
Scheduler_offUpdate(sch, cb) == [sch EXCEPT !.callbacks = SetDelete(@, cb)]

SetSCH(sch) ==
    /\ isRunning' = sch.isRunning
    /\ intervals' = sch.intervals
    /\ callbacks' = sch.callbacks
    /\ inflight' = sch.inflight

(***************************************************************************)
(* The running system: connections come and go and send frames, the        *)
(* scheduler is started and stopped, its timers fire, provider calls       *)
(* return.  Every step rewrites frames (what it wrote to each client) and  *)
(* ret (what it was).                                                      *)
(***************************************************************************)
\* Symbol lists a client may send in a frame: one symbol each.
MsgSymbols == {"BTC", "eth"}
MsgAssetLists == {<<a>> : a \in MsgSymbols}

InboundFrames ==
    {[json |-> FALSE]}
    \cup {[json |-> TRUE, type |-> "subscribe", assets |-> <<l>>] :
              l \in MsgAssetLists \cup {<<>>}}
    \cup {[json |-> TRUE, type |-> "unsubscribe", assets |-> o] :
              o \in {<<>>} \cup {<<l>> : l \in MsgAssetLists}}
    \cup {[json |-> TRUE, type |-> "subscribe",
            assets |-> <<[i \in 1..(SubscribeMaxAssets + 1) |-> "eth"]>>]}
    \cup {[json |-> TRUE, type |-> "ping", assets |-> <<>>]}

cacheGhost == <<cleanupInterval, lastSet>>

\* wss.on("connection"): handleConnection only logs.
Connect(c) ==
    /\ readyState[c] = "NONE"
    /\ readyState' = [readyState EXCEPT ![c] = "OPEN"]
    /\ frames' = NoFrames
    /\ ret' = [op |-> "connect", client |-> c]
    /\ UNCHANGED <<store, now, cacheGhost, roomVars, schedVars>>

\* The connection starts closing: it no longer reports itself OPEN.
BeginClose(c) ==
    /\ readyState[c] = "OPEN"
    /\ readyState' = [readyState EXCEPT ![c] = "CLOSING"]
    /\ frames' = NoFrames
    /\ ret' = [op |-> "closing", client |-> c]
    /\ UNCHANGED <<store, now, cacheGhost, roomVars, schedVars>>

\* client.on("close"): handleDisconnect.
CloseEvent(c) ==
    /\ readyState[c] \in {"OPEN", "CLOSING"}
    /\ readyState' = [readyState EXCEPT ![c] = "CLOSED"]
    /\ SetRM(handleDisconnect(RM, c))
    /\ frames' = NoFrames
    /\ ret' = [op |-> "close", client |-> c,
               subscribed |-> getClientSubscriptions(RM, c) # <<>>]
    /\ UNCHANGED <<store, now, cacheGhost, schedVars>>

\* client.on("message"): handleMessage.
Message(c, data) ==
    /\ readyState[c] \in {"OPEN", "CLOSING"}
    /\ LET r == handleMessage(RM, readyState, c, data) IN
         /\ SetRM(r.rm)
         /\ frames' = [NoFrames EXCEPT ![c] = r.out]
    /\ ret' = [op |-> "message", client |-> c, data |-> data]
    /\ UNCHANGED <<store, now, cacheGhost, readyState, schedVars>>

\* scheduler.start()
Start ==
    /\ BagCardinality(Scheduler_start(SCH, now).inflight) <= MaxInflight
    /\ SetSCH(Scheduler_start(SCH, now))
    /\ frames' = NoFrames
    /\ ret' = [op |-> "start", wasRunning |-> isRunning,
               timersBefore |-> Len(intervals),
               callsBefore |-> BagCardinality(inflight)]
    /\ UNCHANGED <<store, now, cacheGhost, roomVars, readyState>>

\* scheduler.stop()
Stop ==
    /\ SetSCH(Scheduler_stop(SCH))
    /\ frames' = NoFrames
    /\ ret' = [op |-> "stop", wasRunning |-> isRunning]
    /\ UNCHANGED <<store, now, cacheGhost, roomVars, readyState>>

\* scheduler.onUpdate(cb) by a subscriber other than the WebSocket layer.
OnUpdate(cb) ==
    /\ SetSCH(Scheduler_onUpdate(SCH, cb))
    /\ frames' = NoFrames
    /\ ret' = [op |-> "onUpdate", cb |-> cb]
    /\ UNCHANGED <<store, now, cacheGhost, roomVars, readyState>>

\* The function onUpdate returned is called.
OffUpdate(cb) ==
    /\ SetSCH(Scheduler_offUpdate(SCH, cb))
    /\ frames' = NoFrames
    /\ ret' = [op |-> "offUpdate", cb |-> cb,
               registered |-> cb \in Range(callbacks)]
    /\ UNCHANGED <<store, now, cacheGhost, roomVars, readyState>>

\* A setInterval timer comes due: its refresh issues a provider call.
TimerFire(i) ==
    /\ i \in 1..Len(intervals)
    /\ intervals[i].due <= now
    /\ BagCardinality(inflight) < MaxInflight
    /\ inflight' = inflight (+) SetToBag({Call(intervals[i].kind, now)})
    /\ intervals' = [intervals EXCEPT
                       ![i].due = @ + Ttl(intervals[i].kind)]
    /\ frames' = NoFrames
    /\ ret' = [op |-> "timer", kind |-> intervals[i].kind]
    /\ UNCHANGED <<store, now, cacheGhost, roomVars, readyState, isRunning,
                   callbacks>>

\* The rest of a refresh once the provider has answered (ok, payload) or
\* thrown: cache writes, notify, and the WebSocket listener's sends.  throws
\* holds the listeners that throw when called.
Refreshed(call, ok, payload, throws) ==
    LET r == Scheduler_refresh(store, now, callbacks, call.kind, ok, payload,
                               throws)
    IN
    /\ BagIn(call, inflight)
    /\ inflight' = inflight (-) SetToBag({call})
    /\ store' = r.store
    /\ frames' = IF WsListener \in Range(r.notified)
                 THEN wsListener(RM, readyState, call.kind, payload, now)
                 ELSE NoFrames
    /\ ret' = [op |-> "refresh", kind |-> call.kind, ok |-> ok,
               payload |-> payload, notified |-> r.notified,
               throws |-> throws, resolved |-> r.resolved,
               atNotify |-> r.atNotify,
               before |-> [hit |-> Cache_get(store, now, KindKey(call.kind)).hit,
                           data |-> Cache_get(store, now, KindKey(call.kind)).data]]
    /\ UNCHANGED <<now, cacheGhost, roomVars, readyState, isRunning,
                   intervals, callbacks>>

ProviderAnswers(call, payload) == Refreshed(call, TRUE, payload, {})
ProviderThrows(call) == Refreshed(call, FALSE, <<>>, {})

\* The provider answers and a registered listener other than the WebSocket
\* layer's throws when it is called.
ListenerThrows(call, payload, bad) ==
    /\ bad \in Range(callbacks)
    /\ Refreshed(call, TRUE, payload, {bad})

\* The clock advances, unless a timer is due.
SysTick ==
    /\ now < MaxTime
    /\ \A i \in 1..Len(intervals) : intervals[i].due > now
    /\ now' = now + 1
    /\ frames' = NoFrames
    /\ ret' = [op |-> "tick"]
    /\ UNCHANGED <<store, cacheGhost, roomVars, readyState, schedVars>>

\* The state once index.ts has run initWebSocket, before scheduler.start().
InitSystem ==
    /\ store = EmptyMap
    /\ now = 0
    /\ cleanupInterval = TRUE
    /\ lastSet = [k \in Keys |-> NoSet]
    /\ IdleRooms
    /\ readyState = [c \in Clients |-> "NONE"]
    /\ isRunning = FALSE
    /\ intervals = <<>>
    /\ callbacks = <<WsListener>>
    /\ inflight = EmptyBag
    /\ frames = NoFrames
    /\ ret = [op |-> "none"]

\* The state once index.ts has also run scheduler.start().
InitStarted ==
    /\ store = EmptyMap
    /\ now = 0
    /\ cleanupInterval = TRUE
    /\ lastSet = [k \in Keys |-> NoSet]
    /\ IdleRooms
    /\ readyState = [c \in Clients |-> "NONE"]
    /\ LET sch == Scheduler_start([isRunning |-> FALSE, intervals |-> <<>>,
                                   callbacks |-> <<WsListener>>,
                                   inflight |-> EmptyBag], 0)
       IN /\ isRunning = sch.isRunning
          /\ intervals = sch.intervals
          /\ callbacks = sch.callbacks
          /\ inflight = sch.inflight
    /\ frames = NoFrames
    /\ ret = [op |-> "start", wasRunning |-> FALSE, timersBefore |-> 0,
              callsBefore |-> 0]

Calls == {Call(k, t) : k \in Kinds, t \in 0..MaxTime}

\* Fan-out: connections, subscriptions and the refreshes that scheduler.start()
\* began, up to shutdown's scheduler.stop().
NextFanout ==
    \/ \E c \in Clients : Connect(c)
    \/ \E c \in Clients : BeginClose(c)
    \/ \E c \in Clients : CloseEvent(c)
    \/ \E c \in Clients, d \in InboundFrames : Message(c, d)
    \/ Stop
    \/ \E call \in Calls : \E p \in Payloads(call.kind) : ProviderAnswers(call, p)
    \/ \E call \in Calls : ProviderThrows(call)

SpecFanout == InitStarted /\ [][NextFanout]_vars

\* Scheduling: the scheduler, its timers, the cache and the clock, with no
\* client connected.
NextScheduler ==
    \/ Start
    \/ Stop
    \/ \E i \in 1..3 : TimerFire(i)
    \/ \E call \in Calls : \E p \in Payloads(call.kind) : ProviderAnswers(call, p)
    \/ \E call \in Calls : ProviderThrows(call)
    \/ SysTick

SpecScheduler == InitSystem /\ [][NextScheduler]_vars

\* Scheduling while the scheduler stays Running and the provider answers every
\* call: start(), the timers, the answers and the clock.  A call answered in
\* the step it was issued in took less than one unit of time.
NextAllSucceed ==
    \/ Start
    \/ \E i \in 1..3 : TimerFire(i)
    \/ \E call \in Calls : \E p \in Payloads(call.kind) : ProviderAnswers(call, p)
    \/ SysTick

SpecAllSucceed == InitSystem /\ [][NextAllSucceed]_vars

\* The listeners other than the WebSocket layer's: subscribers that register
\* and unregister through onUpdate at any time.
OtherListeners == Listeners \ {WsListener}
LateListener == "aux"

\* Stopping and restarting: the scheduler, its timers and the clock, with one
\* subscriber besides the WebSocket layer.
NextStop ==
    \/ Start
    \/ Stop
    \/ OnUpdate(LateListener)
    \/ OffUpdate(LateListener)
    \/ \E i \in 1..3 : TimerFire(i)
    \/ \E call \in Calls : \E p \in Payloads(call.kind) : ProviderAnswers(call, p)
    \/ SysTick

SpecStop == InitSystem /\ [][NextStop]_vars

\* Announcements: the refreshes scheduler.start() began are answered while
\* subscribers register, unregister and throw.
NextListeners ==
    \/ \E cb \in OtherListeners : OnUpdate(cb)
    \/ \E cb \in OtherListeners : OffUpdate(cb)
    \/ Stop
    \/ \E call \in Calls : \E p \in Payloads(call.kind) : ProviderAnswers(call, p)
    \/ \E call \in Calls : \E p \in Payloads(call.kind) :
           \E bad \in OtherListeners : ListenerThrows(call, p, bad)
    \/ \E call \in Calls : ProviderThrows(call)

SpecListeners == InitStarted /\ [][NextListeners]_vars

\* shutdown(signal) up to its await, as the calls it makes in order: none once
\* isShuttingDown is set; otherwise scheduler.stop(), then closeWebSocket() is
\* called and awaited.
\* Faulty variant: the isShuttingDown guard is missing.
shutdown_noGuard(sch, shuttingDown) ==
    [sch |-> Scheduler_stop(sch),
     steps |-> <<"scheduler.stop", "closeWebSocket">>]

shutdown(sch, shuttingDown) ==
    IF shuttingDown
    THEN [sch |-> sch, steps |-> <<>>]
    ELSE [sch |-> Scheduler_stop(sch),
          steps |-> <<"scheduler.stop", "closeWebSocket">>]

\* A termination signal arrives.  isShuttingDown is set exactly when the
\* scheduler has been stopped: nothing else in the process stops it.
Shutdown ==
    LET r == shutdown(SCH, ~isRunning) IN
    /\ SetSCH(r.sch)
    /\ frames' = NoFrames
    /\ ret' = [op |-> "shutdown", inProgress |-> ~isRunning,
               steps |-> r.steps]
    /\ UNCHANGED <<store, now, cacheGhost, roomVars, readyState>>

\* shutdown(signal) after closeWebSocket() has resolved: cache.destroy(), then
\* server.close and the forced-exit timer.
ShutdownResumes ==
    /\ ~isRunning
    /\ cleanupInterval
    /\ cleanupInterval' = FALSE
    /\ store' = Cache_clear(store)
    /\ frames' = NoFrames
    /\ ret' = [op |-> "destroy", steps |-> <<"cache.destroy", "server.close">>]
    /\ UNCHANGED <<now, lastSet, roomVars, readyState, schedVars>>

\* Shutdown: the started process receives a termination signal while provider
\* calls are in flight; the calls return before the process has exited.
NextShutdown ==
    \/ Shutdown
    \/ ShutdownResumes
    \/ \E i \in 1..3 : TimerFire(i)
    \/ \E call \in Calls : \E p \in Payloads(call.kind) : ProviderAnswers(call, p)
    \/ \E call \in Calls : ProviderThrows(call)
    \/ SysTick

SpecShutdown == InitStarted /\ [][NextShutdown]_vars

\* Restart: connections subscribe while the scheduler is stopped and started
\* again and a subscriber registers through onUpdate; the clock stands still.
NextRestart ==
    \/ \E c \in Clients : Connect(c)
    \/ \E c \in Clients, d \in InboundFrames : Message(c, d)
    \/ Stop
    \/ Start
    \/ OnUpdate(LateListener)
    \/ \E call \in Calls : \E p \in Payloads(call.kind) : ProviderAnswers(call, p)

SpecRestart == InitStarted /\ [][NextRestart]_vars

(***************************************************************************)
(* HTTP read routes (routes/crypto, routes/market): GET /listings with the *)
(* default start and limit, GET /global, GET /fear-greed.                  *)
(***************************************************************************)

\* A route handler up to its cached response or its await: cache.get, and on
\* a hit the response with meta.cached = true; on a miss a provider call.
\* Faulty variant: the cache is not consulted.
Route_read_alwaysFetch(s, t, kind) ==
    [store |-> s, cached |-> FALSE, data |-> Undefined, fetch |-> TRUE]

Route_read(s, t, kind) ==
    LET r == Cache_get(s, t, KindKey(kind))
    IN IF r.hit
       THEN [store |-> r.store, cached |-> TRUE, data |-> r.data,
             fetch |-> FALSE]
       ELSE [store |-> r.store, cached |-> FALSE, data |-> Undefined,
             fetch |-> TRUE]

\* The handler after its await: cache.set of the answer (and of each asset of
\* a listings answer), then the response with meta.cached = false.
Route_fetched(s, t, kind, payload) == RefreshWrites(s, t, kind, payload)

\* A provider call issued by a route handler.
RouteCall(kind) == [kind |-> kind, route |-> TRUE]
RouteCalls == {RouteCall(k) : k \in Kinds}

\* live: whether the key held a live entry when the request arrived.
HttpGet(kind) ==
    LET r == Route_read(store, now, kind) IN
    /\ r.fetch => BagCardinality(inflight) < MaxInflight
    /\ store' = r.store
    /\ inflight' = IF r.fetch
                   THEN inflight (+) SetToBag({RouteCall(kind)})
                   ELSE inflight
    /\ frames' = NoFrames
    /\ ret' = [op |-> "http", kind |-> kind,
               live |-> MapHas(store, KindKey(kind))
                        /\ ~(now > store[KindKey(kind)].expiresAt),
               cached |-> r.cached, data |-> r.data, fetch |-> r.fetch]
    /\ UNCHANGED <<now, cacheGhost, roomVars, readyState, isRunning,
                   intervals, callbacks>>

HttpAnswers(call, payload) ==
    /\ BagIn(call, inflight)
    /\ inflight' = inflight (-) SetToBag({call})
    /\ store' = Route_fetched(store, now, call.kind, payload)
    /\ frames' = NoFrames
    /\ ret' = [op |-> "httpAnswer", kind |-> call.kind, cached |-> FALSE,
               data |-> payload]
    /\ UNCHANGED <<now, cacheGhost, roomVars, readyState, isRunning,
                   intervals, callbacks>>

\* The provider call of a route throws: the request ends in an error response.
HttpThrows(call) ==
    /\ BagIn(call, inflight)
    /\ inflight' = inflight (-) SetToBag({call})
    /\ frames' = NoFrames
    /\ ret' = [op |-> "httpError", kind |-> call.kind]
    /\ UNCHANGED <<store, now, cacheGhost, roomVars, readyState, isRunning,
                   intervals, callbacks>>

\* Reads: HTTP requests arrive while the started scheduler refreshes.
NextRoutes ==
    \/ \E kind \in Kinds : HttpGet(kind)
    \/ \E call \in RouteCalls : \E p \in Payloads(call.kind) : HttpAnswers(call, p)
    \/ \E call \in RouteCalls : HttpThrows(call)
    \/ \E i \in 1..3 : TimerFire(i)
    \/ \E call \in Calls : \E p \in Payloads(call.kind) : ProviderAnswers(call, p)
    \/ SysTick

SpecRoutes == InitStarted /\ [][NextRoutes]_vars

(***************************************************************************)
(* GET /listings with its query parameters (ListingsQuerySchema).          *)
(***************************************************************************)
\* start and limit as requests give them; sort and sort_dir, two of the
\* schema's sort keys.
ListingsStarts == {1}
ListingsLimits == {1, 100}
ListingsSorts == {"market_cap", "name"}
ListingsSortDirs == {"asc", "desc"}
ListingsQueries ==
    [start : ListingsStarts, limit : ListingsLimits, sort : ListingsSorts,
     sort_dir : ListingsSortDirs]

\* CACHE_KEYS.listings(start, limit)
CACHE_KEYS_listings(start, limit) ==
    "listings:" \o ToString(start) \o ":" \o ToString(limit)

\* cmcClient.getListings: the provider's assets in the order asked for, from
\* start, at most limit of them.  Bitcoin has the larger market cap and the
\* alphabetically smaller name.
cmcClient_getListings(start, limit, sort, sort_dir) ==
    LET all == IF (sort = "market_cap") = (sort_dir = "desc")
               THEN <<Btc(1), Eth(1)>> ELSE <<Eth(1), Btc(1)>>
        last == IF start + limit - 1 < Len(all) THEN start + limit - 1
                ELSE Len(all)
    IN SubSeq(all, start, last)

\* The provider call a GET /listings handler awaits.
ListingsCall(q) ==
    [kind |-> "listings", route |-> TRUE, start |-> q.start,
     limit |-> q.limit, sort |-> q.sort, sort_dir |-> q.sort_dir]

\* GET /listings up to its cached response or its await.
GetListings(q) ==
    LET key == CACHE_KEYS_listings(q.start, q.limit)
        r == Cache_get(store, now, key)
    IN
    /\ ~r.hit => BagCardinality(inflight) < MaxInflight
    /\ store' = r.store
    /\ inflight' = IF r.hit THEN inflight
                   ELSE inflight (+) SetToBag({ListingsCall(q)})
    /\ frames' = NoFrames
    /\ ret' = [op |-> "listings", query |-> q, cached |-> r.hit,
               answered |-> r.hit, data |-> r.data]
    /\ UNCHANGED <<now, cacheGhost, roomVars, readyState, isRunning,
                   intervals, callbacks>>

\* GET /listings after its await: the answer is cached under the key of
\* start and limit, each asset under its own key, and returned.
ListingsAnswers(q) ==
    LET key == CACHE_KEYS_listings(q.start, q.limit)
        assets == cmcClient_getListings(q.start, q.limit, q.sort, q.sort_dir)
    IN
    /\ BagIn(ListingsCall(q), inflight)
    /\ inflight' = inflight (-) SetToBag({ListingsCall(q)})
    /\ store' = CacheAssets(Cache_set(store, now, key, assets, ListingsTtl),
                            now, assets, 1)
    /\ frames' = NoFrames
    /\ ret' = [op |-> "listings", query |-> q, cached |-> FALSE,
               answered |-> TRUE, data |-> assets]
    /\ UNCHANGED <<now, cacheGhost, roomVars, readyState, isRunning,
                   intervals, callbacks>>

\* Listings requests with any parameters arrive while the calls of
\* scheduler.start() are answered; the clock stands still.
NextListings ==
    \/ \E q \in ListingsQueries : GetListings(q)
    \/ \E q \in ListingsQueries : ListingsAnswers(q)
    \/ \E call \in Calls : \E p \in Payloads(call.kind) : ProviderAnswers(call, p)

SpecListings == InitStarted /\ [][NextListings]_vars

(***************************************************************************)
(* Claims about the Cache, stated for SpecCache.                           *)
(***************************************************************************)

\* C1: get never returns a value whose entry's expiresAt is earlier than the
\* current time: an entry whose expiry has passed is reported not-found,
\* whether or not the sweep has removed it yet.
C1_GetNeverReturnsExpired ==
    (ret.op = "get" /\ ret.hit) => (ret.expiresAt >= now)

\* An expired entry still in the store (no sweep yet) was looked up.
C1_Witness ==
    /\ ret.op = "get"
    /\ ret.expiresAt >= 0
    /\ now > ret.expiresAt
    /\ ~ret.hit

\* C2: for ttl > 0, a get/has at the time of set(k, v, ttl) returns v / true;
\* once the clock is past ttl with no further set on k, get(k) returns
\* not-found and has(k) returns false.
C2_TtlMonotonicity ==
    \A k \in Keys :
        (ret.op \in {"get", "has"} /\ ret.key = k /\ lastSet[k].done
                /\ lastSet[k].ttl > 0) =>
            /\ (lastSet[k].at = now) =>
                   /\ ret.hit
                   /\ (ret.op = "get" => ret.data = lastSet[k].data)
            /\ (now > lastSet[k].at + lastSet[k].ttl) => ~ret.hit

\* has(k) answered false after the clock passed the ttl of the last set(k).
C2_Witness ==
    /\ ret.op = "has"
    /\ lastSet[ret.key].done
    /\ lastSet[ret.key].ttl > 0
    /\ now > lastSet[ret.key].at + lastSet[ret.key].ttl
    /\ ~ret.hit

\* C3: a second set on a key replaces the entry wholesale: the stored entry
\* and every later get carry the data of the last set and the expiry
\* (time of that set) + (its ttl), also when the replaced entry expired later.
C3_OverwriteWholesale ==
    /\ \A k \in Keys :
          (lastSet[k].done /\ MapHas(store, k)) =>
              store[k] = [data |-> lastSet[k].data,
                          expiresAt |-> lastSet[k].at + lastSet[k].ttl,
                          createdAt |-> lastSet[k].at]
    /\ (ret.op = "get" /\ ret.hit) =>
          /\ lastSet[ret.key].done
          /\ ret.data = lastSet[ret.key].data
          /\ ret.expiresAt = lastSet[ret.key].at + lastSet[ret.key].ttl

\* get hit on a key whose last set replaced other data with a later expiry.
C3_Witness ==
    /\ ret.op = "get"
    /\ ret.hit
    /\ lastSet[ret.key].done
    /\ lastSet[ret.key].overOther

(***************************************************************************)
(* Claims about the RoomManager, stated for SpecRooms.                     *)
(***************************************************************************)

\* C4: a client is in the market (all-updates) room if and only if its set of
\* subscribed symbols is non-empty.
C4_MarketRoomIffSubscribed ==
    \A c \in Clients :
        (c \in getMarketSubscribers(RM)) <=>
            (Len(getClientSubscriptions(RM, c)) > 0)

\* C5: no empty room persists: every symbol of the forward index (hence of
\* stats().rooms) has at least one subscribed client.
C5_NoEmptyRooms ==
    /\ \A a \in DOMAIN assetRooms : assetRooms[a] # {}
    /\ \A a \in DOMAIN RoomManager_stats(RM).rooms :
           RoomManager_stats(RM).rooms[a] >= 1

\* An unsubscribe removed the last client of a room, and the room went with it.
C5_Witness ==
    /\ ret.op = "unsubscribe"
    /\ \E a \in ret.roomsBefore : a \in Range(ret.result) /\ ~MapHas(assetRooms, a)

\* C6: removeClient(c) leaves c without subscriptions, in no symbol room, out
\* of the market room and without an entry in the client index.
C6_RemoveClientCleansUp ==
    (ret.op = "removeClient") =>
        /\ getClientSubscriptions(RM, ret.client) = <<>>
        /\ \A a \in DOMAIN assetRooms : ret.client \notin assetRooms[a]
        /\ ret.client \notin marketRoom
        /\ ~MapHas(clientSubscriptions, ret.client)

\* A client holding two subscriptions was removed.
C6_Witness ==
    /\ ret.op = "removeClient"
    /\ Len(ret.subsBefore) >= 2

(***************************************************************************)
(* Claims about the fan-out, stated for SpecFanout.                        *)
(***************************************************************************)
\* The frames of the given type and asset id among those written to c.
FramesFor(c, type, id) ==
    SelectSeq(frames[c], LAMBDA f : f.type = type /\ f.data.id = id)
InRoom(c, symbol) == MapHas(assetRooms, symbol) /\ c \in assetRooms[symbol]
ListingsAnnounced ==
    /\ ret.op = "refresh"
    /\ ret.kind = "listings"
    /\ ret.ok
    /\ WsListener \in Range(ret.notified)

\* C7: when a listings announcement reaches the WebSocket listener, a
\* price_update for asset a is written to client c if and only if c is OPEN and
\* c is in the room of a's lower-cased symbol.
C7_SelectiveBroadcast ==
    ListingsAnnounced =>
        \A c \in Clients : \A i \in 1..Len(ret.payload) :
            (Len(FramesFor(c, "price_update", ret.payload[i].id)) > 0) <=>
                /\ readyState[c] = "OPEN"
                /\ InRoom(c, ToLowerCase(ret.payload[i].symbol))

\* One client got the update of asset 1; another, open and subscribed only to
\* another symbol, did not.
C7_Witness ==
    /\ ListingsAnnounced
    /\ \E c1, c2 \in Clients :
          /\ Len(FramesFor(c1, "price_update", 1)) > 0
          /\ readyState[c2] = "OPEN"
          /\ c2 \in marketRoom
          /\ ~InRoom(c2, "btc")
          /\ Len(FramesFor(c2, "price_update", 1)) = 0

\* The number of assets of the payload whose room holds c.
PairsOf(c, payload) ==
    Cardinality({i \in 1..Len(payload) : InRoom(c, ToLowerCase(payload[i].symbol))})

\* The frames a successful refresh of ret.kind owes to the clients: one
\* price_update per (asset, open client of its room), one market_update per
\* open client of the market room.
ExactlyOnce ==
    /\ ret.kind = "listings" =>
          \A c \in Clients :
             /\ \A i \in 1..Len(ret.payload) :
                   Len(FramesFor(c, "price_update", ret.payload[i].id)) =
                      IF readyState[c] = "OPEN"
                         /\ InRoom(c, ToLowerCase(ret.payload[i].symbol))
                      THEN 1 ELSE 0
             /\ Len(frames[c]) =
                   IF readyState[c] = "OPEN" THEN PairsOf(c, ret.payload) ELSE 0
    /\ ret.kind = "globalMetrics" =>
          \A c \in Clients :
             /\ Len(frames[c]) =
                   IF readyState[c] = "OPEN" /\ c \in marketRoom THEN 1 ELSE 0
             /\ \A j \in 1..Len(frames[c]) : frames[c][j].type = "market_update"

\* C8 as stated: every successful refresh fans out exactly once per pair, a
\* failed one sends nothing.
C8_ExactlyOncePerRefresh ==
    (ret.op = "refresh") =>
        IF ret.ok THEN ExactlyOnce ELSE frames = NoFrames

\* C8 as amended: a successful refresh fans out exactly once per pair while
\* the WebSocket listener is still registered; once stop() has discarded the
\* listeners a successful refresh sends nothing; a failed one sends nothing.
C8_ExactlyOnceWhileListening ==
    (ret.op = "refresh") =>
        IF ret.ok /\ WsListener \in Range(ret.notified) THEN ExactlyOnce
        ELSE frames = NoFrames

\* A listings refresh wrote two frames (both assets) to one client.
C8_Witness ==
    /\ ListingsAnnounced
    /\ \E c \in Clients : Len(frames[c]) = 2

(***************************************************************************)
(* Claims about the scheduler, stated for SpecScheduler.                   *)
(***************************************************************************)
TimersOf(kind) == {i \in 1..Len(intervals) : intervals[i].kind = kind}

\* C9: Running: exactly one recurring timer per refresh kind; Stopped: none;
\* start() while Running arms no timer and issues no provider call.
C9_OneTimerPerKind ==
    /\ isRunning => \A k \in Kinds : Cardinality(TimersOf(k)) = 1
    /\ isRunning => Len(intervals) = Cardinality(Kinds)
    /\ ~isRunning => intervals = <<>>
    /\ (ret.op = "start" /\ ret.wasRunning) =>
          /\ Len(intervals) = ret.timersBefore
          /\ BagCardinality(inflight) = ret.callsBefore

\* start() was called on a running scheduler.
C9_Witness ==
    /\ ret.op = "start"
    /\ ret.wasRunning
    /\ isRunning

\* C10: a refresh whose provider call failed notifies nobody, sends nothing,
\* and leaves the kind's cache key answering as before the failure.
C10_FailedRefreshKeepsCache ==
    (ret.op = "refresh" /\ ~ret.ok) =>
        /\ ret.notified = <<>>
        /\ frames = NoFrames
        /\ Cache_get(store, now, KindKey(ret.kind)).hit = ret.before.hit
        /\ ret.before.hit =>
              Cache_get(store, now, KindKey(ret.kind)).data = ret.before.data

\* A provider call failed while the key still held an earlier cycle's value,
\* and listeners were registered.
C10_Witness ==
    /\ ret.op = "refresh"
    /\ ~ret.ok
    /\ ret.before.hit
    /\ callbacks # <<>>
    /\ Cache_get(store, now, KindKey(ret.kind)).hit

(***************************************************************************)
(* Claims about refresh timing, stated for SpecAllSucceed.                 *)
(***************************************************************************)

\* C11: while the scheduler is Running and every provider call succeeds, from
\* the completion of the first refresh of a kind onward (the kind's key has
\* been written), Cache.get on that kind's key never returns not-found,
\* whatever the latencies of the provider calls.
C11_NeverStaleWhileRunning ==
    \A kind \in Kinds :
        (isRunning /\ MapHas(store, KindKey(kind)))
            => Cache_get(store, now, KindKey(kind)).hit

(***************************************************************************)
(* Claims about stop(), stated for SpecStop.                                *)
(***************************************************************************)

\* C12: stop() while Running leaves the scheduler Stopped with no timer and
\* no listener, and while the scheduler stays Stopped no step issues a
\* provider call; stop() while Stopped changes neither the state, nor the
\* timers, nor the listeners registered while Stopped.
C12_StopSemantics ==
    /\ [][Stop => IF isRunning
                  THEN ~isRunning' /\ intervals' = <<>> /\ callbacks' = <<>>
                  ELSE UNCHANGED <<isRunning, intervals, callbacks, inflight,
                                   store>>]_vars
    /\ [][(~isRunning /\ ~isRunning')
              => \A c \in Calls : CopiesIn(c, inflight') <= CopiesIn(c, inflight)]_vars

\* stop() was called on a Stopped scheduler holding a listener registered
\* after the stop() that had stopped it, past the time a timer would have
\* come due.
C12_Witness ==
    /\ ret.op = "stop" /\ ~ret.wasRunning
    /\ ~isRunning
    /\ callbacks = <<LateListener>>
    /\ now >= ListingsTtl

(***************************************************************************)
(* Claims about the order inside a refresh cycle, stated for SpecFanout.   *)
(***************************************************************************)

\* Cache.get on the kind's key(s) returns the payload: the kind's own key, and
\* for listings each asset's key as well.
CacheAnswers(s, t, kind, payload) ==
    /\ Cache_get(s, t, KindKey(kind)).hit
    /\ Cache_get(s, t, KindKey(kind)).data = payload
    /\ kind = "listings" =>
           \A i \in 1..Len(payload) :
               /\ Cache_get(s, t, AssetKey(payload[i].id)).hit
               /\ Cache_get(s, t, AssetKey(payload[i].id)).data = payload[i]

UpdateFrameSent ==
    \E c \in Clients : \E i \in 1..Len(frames[c]) :
        frames[c][i].type \in {"price_update", "market_update"}

\* C13: in a refresh cycle the cache is written before the listeners are
\* called and the listeners are called before the client sends: when a
\* listener is called with a kind's payload, and when a frame derived from it
\* is sent, Cache.get on the kind's key(s) already returns that payload; and
\* update frames are written only by the refresh step itself, so a connection
\* that subscribes after the announcement gets no frame for that cycle.
C13_WriteThenAnnounceThenSend ==
    /\ (ret.op = "refresh" /\ (ret.notified # <<>> \/ UpdateFrameSent))
           => CacheAnswers(ret.atNotify, now, ret.kind, ret.payload)
    /\ UpdateFrameSent
           => (ret.op = "refresh" /\ WsListener \in Range(ret.notified))
    /\ (ret.op = "message" /\ ret.data.json /\ ret.data.type = "subscribe")
           => ~UpdateFrameSent

\* A listings refresh was announced and a price_update frame went out.
C13_Witness ==
    /\ ret.op = "refresh" /\ ret.kind = "listings"
    /\ WsListener \in Range(ret.notified)
    /\ \E c \in Clients : FramesFor(c, "price_update", 1) # <<>>

(***************************************************************************)
(* Claims about shutdown, stated for SpecShutdown.                         *)
(***************************************************************************)

\* C14: once Cache.destroy() has been called no refresh performs a cache set,
\* not even one whose provider call was in flight when stop() ran: the
\* destroyed cache stays empty.
C14_DestroyedCacheStaysEmpty ==
    ~cleanupInterval => store = EmptyMap

(***************************************************************************)
(* Claims about faulty listeners, stated for SpecListeners.                *)
(***************************************************************************)

ListenerThrew == ret.op = "refresh" /\ ret.ok /\ ret.throws # {}

\* C15: when a registered listener throws during an announcement, every
\* listener registered at that moment is still called for it, the cycle's
\* cache write stands, the refresh completes as a success, and the scheduler
\* keeps its state, its timers and its listeners.
C15_ThrowingListenerIsContained ==
    /\ [](ListenerThrew =>
              /\ ret.notified = callbacks
              /\ CacheAnswers(store, now, ret.kind, ret.payload)
              /\ ret.resolved)
    /\ [][ListenerThrew' => UNCHANGED <<isRunning, intervals, callbacks>>]_vars

\* A listener threw while the scheduler was Running and a listener
\* registered after it was still called.
C15_Witness ==
    /\ ListenerThrew
    /\ isRunning /\ Len(intervals) = 3
    /\ \E i, j \in 1..Len(ret.notified) :
           i < j /\ ret.notified[i] \in ret.throws
                 /\ ret.notified[j] \notin ret.throws

(***************************************************************************)
(* Claims about malformed client input, stated for SpecFanout.             *)
(***************************************************************************)

ErrorFrame(error) == [type |-> "error", error |-> error]
OnlyTo(c, out) == [NoFrames EXCEPT ![c] = out]

\* C16: an inbound frame on an open connection c that does not parse as JSON
\* yields exactly one outbound frame, {type: error, error: "Invalid JSON"},
\* sent to c, and leaves the three registry indexes unchanged.
C16_InvalidJsonOneErrorFrame ==
    [][(ret'.op = "message" /\ ~ret'.data.json
            /\ readyState[ret'.client] = "OPEN")
          => /\ frames' = OnlyTo(ret'.client, <<ErrorFrame("Invalid JSON")>>)
             /\ UNCHANGED <<assetRooms, marketRoom, clientSubscriptions>>]_vars

\* An open connection holding a subscription sent unparseable text.
C16_Witness ==
    /\ ret.op = "message" /\ ~ret.data.json
    /\ readyState[ret.client] = "OPEN"
    /\ getClientSubscriptions(RM, ret.client) # <<>>
    /\ frames[ret.client] = <<ErrorFrame("Invalid JSON")>>

\* The two shapes a parsed frame may have: subscribe with a list of 1 to 50
\* strings, unsubscribe with an optional list of strings.
KnownShape(d) ==
    \/ /\ d.type = "subscribe"
       /\ d.assets # <<>>
       /\ Len(d.assets[1]) \in SubscribeMinAssets..SubscribeMaxAssets
    \/ d.type = "unsubscribe"

UnknownShapeReceived ==
    ret.op = "message" /\ ret.data.json /\ ~KnownShape(ret.data)

\* C17: a parseable inbound frame on an open connection that matches neither
\* known shape (a subscribe with 0 or 51 assets, an unknown type) yields
\* exactly one error frame, to the offending connection only, changes no
\* registry index and does not close the connection.
C17_SchemaMismatchOneErrorFrame ==
    [][(UnknownShapeReceived' /\ readyState[ret'.client] = "OPEN")
          => /\ frames' = OnlyTo(ret'.client, <<ErrorFrame("Invalid message")>>)
             /\ UNCHANGED <<assetRooms, marketRoom, clientSubscriptions>>
             /\ UNCHANGED readyState]_vars

\* An open connection sent a subscribe with one asset more than allowed while
\* another connection was open, and stayed open.
C17_Witness ==
    /\ UnknownShapeReceived
    /\ ret.data.type = "subscribe"
    /\ Len(ret.data.assets[1]) = SubscribeMaxAssets + 1
    /\ \A c \in Clients : readyState[c] = "OPEN"
    /\ frames = OnlyTo(ret.client, <<ErrorFrame("Invalid message")>>)
    /\ getClientSubscriptions(RM, ret.client) = <<>>

(***************************************************************************)
(* Claims about the results of subscribe and unsubscribe, stated for       *)
(* SpecRooms.                                                              *)
(***************************************************************************)

LowerSymbols == {"btc", "eth"}
Casings == {"btc", "BTC", "Btc", "eth", "ETH", "Eth"}
SubsNow(c) == Range(getClientSubscriptions(RM, c))

\* C18: subscribe(c, symbols) returns the lower-cased symbols it applied;
\* afterwards subscriptionsOf(c) holds, as a set, exactly c's earlier
\* subscriptions and those lower-cased symbols; subscribersOf(s) is the same
\* for every casing of s.
C18_SubscribeNormalizes ==
    /\ ret.op = "subscribe" =>
           /\ ret.result = MapToLowerCase(ret.args)
           /\ Range(ret.result) \subseteq LowerSymbols
           /\ SubsNow(ret.client) = Range(ret.subsBefore) \cup Range(ret.result)
    /\ \A s \in Casings :
           getAssetSubscribers(RM, s) = getAssetSubscribers(RM, ToLowerCase(s))

\* A client holding eth subscribed to ["BTC", "eth"].
C18_Witness ==
    /\ ret.op = "subscribe"
    /\ ret.args = <<"BTC", "eth">>
    /\ ret.result = <<"btc", "eth">>
    /\ ret.subsBefore = <<"eth">>
    /\ ret.client \in getAssetSubscribers(RM, "BTC")

\* C19: unsubscribe(c, symbols) returns the symbols actually removed: every
\* symbol of the result was in subscriptionsOf(c) just before the call and is
\* absent after it (so a requested symbol c did not hold is not reported), and
\* the result is empty when c had no subscriptions.
C19_UnsubscribeReportsRemoved ==
    ret.op = "unsubscribe" =>
        /\ Range(ret.result) \subseteq Range(ret.subsBefore)
        /\ Range(ret.result) \cap SubsNow(ret.client) = {}
        /\ ret.subsBefore = <<>> => ret.result = <<>>

FullUnsubscribe ==
    /\ ret.op = "unsubscribe"
    /\ \/ ret.args = <<>>
       \/ Range(ret.subsBefore) \subseteq Range(MapToLowerCase(ret.args[1]))

\* C20: after a full unsubscribe of c (no symbols given, or symbols covering
\* all of c's subscriptions) the registry holds no entry for c:
\* subscriptionsOf(c) is empty, c is in no room, and stats().totalClients
\* counts only the other connections' entries.
C20_FullUnsubscribeRemovesEntry ==
    FullUnsubscribe =>
        /\ getClientSubscriptions(RM, ret.client) = <<>>
        /\ \A a \in DOMAIN assetRooms : ret.client \notin assetRooms[a]
        /\ ret.client \notin getMarketSubscribers(RM)
        /\ RoomManager_stats(RM).totalClients =
               Cardinality(DOMAIN clientSubscriptions \ {ret.client})

(***************************************************************************)
(* Claims about replies and broadcasts, stated for SpecFanout.             *)
(***************************************************************************)

ValidReceived ==
    ret.op = "message" /\ ret.data.json /\ KnownShape(ret.data)

\* C21: a valid subscribe or unsubscribe frame from an open connection c
\* produces exactly one reply frame, {type: subscribed, assets: the normalized
\* symbols} or {type: unsubscribed, assets: the symbols removed}, and no other
\* connection receives a frame.
C21_OneReplyToSenderOnly ==
    [][(ValidReceived' /\ readyState[ret'.client] = "OPEN")
          => LET c == ret'.client
                 d == ret'.data
                 removed == Range(getClientSubscriptions(RM, c))
                                \ Range(getClientSubscriptions(RM', c))
             IN /\ frames' = OnlyTo(c, frames'[c])
                /\ Len(frames'[c]) = 1
                /\ IF d.type = "subscribe"
                   THEN frames'[c][1] = [type |-> "subscribed",
                                         assets |-> MapToLowerCase(d.assets[1])]
                   ELSE /\ frames'[c][1].type = "unsubscribed"
                        /\ Range(frames'[c][1].assets) = removed]_vars

\* The WebSocket layer's listener was called with a payload of the kind.
Announced(kind) ==
    /\ ret.op = "refresh" /\ ret.ok /\ ret.kind = kind
    /\ WsListener \in Range(ret.notified)

MarketUpdateFrame ==
    [type |-> "market_update",
     data |-> [totalMarketCap |-> ret.payload.totalMarketCap,
               btcDominance |-> ret.payload.btcDominance,
               timestamp |-> now]]

\* C22: for a globalMetrics announcement one market_update frame is sent to
\* exactly the open connections of the market room, which are exactly the open
\* connections holding at least one symbol subscription; a fearGreed
\* announcement sends no frame to any connection.
C22_MarketUpdateToAllUpdateSubscribers ==
    /\ Announced("globalMetrics") =>
           \A c \in Clients :
               /\ frames[c] = IF readyState[c] = "OPEN"
                                 /\ c \in getMarketSubscribers(RM)
                              THEN <<MarketUpdateFrame>> ELSE <<>>
               /\ c \in getMarketSubscribers(RM) <=> SubsNow(c) # {}
    /\ Announced("fearGreed") => frames = NoFrames

\* A globalMetrics announcement reached one open subscribed connection and
\* skipped another open connection that had given up its subscriptions.
C22_Witness ==
    /\ Announced("globalMetrics")
    /\ \E c1, c2 \in Clients :
          /\ frames[c1] = <<MarketUpdateFrame>>
          /\ readyState[c2] = "OPEN"
          /\ MapHas(clientSubscriptions, c2)
          /\ SubsNow(c2) = {}
          /\ frames[c2] = <<>>

(***************************************************************************)
(* Claims about outstanding provider calls.                                *)
(***************************************************************************)

\* The provider calls of the kind that await their answer.
InFlightOf(kind) ==
    BagCardinality([c \in {x \in BagToSet(inflight) : x.kind = kind}
                       |-> CopiesIn(c, inflight)])

\* C23 (SpecAllSucceed): while a provider call of a kind is outstanding no
\* further call of that kind is issued: at most one fetch per kind is in
\* flight at any time.
C23_AtMostOneInFlightPerKind ==
    \A kind \in Kinds : InFlightOf(kind) <= 1

\* C24 (SpecFanout): a provider call in flight when stop() ran is not aborted:
\* when it is answered its result is written to the cache and announced, the
\* announcement reaches none of the listeners registered before stop(), and
\* no client frame is sent because of it.
C24_InFlightAfterStop ==
    (ret.op = "refresh" /\ ret.ok /\ ~isRunning) =>
        /\ CacheAnswers(store, now, ret.kind, ret.payload)
        /\ ret.notified = <<>>
        /\ frames = NoFrames

\* A listings call was answered after stop() while an open connection was
\* subscribed to one of its assets.
C24_Witness ==
    /\ ret.op = "refresh" /\ ret.ok /\ ret.kind = "listings"
    /\ ~isRunning
    /\ \E c \in Clients : readyState[c] = "OPEN" /\ InRoom(c, "btc")
    /\ ~ret.before.hit

(***************************************************************************)
(* Claims about delete, ttl and the sweep, stated for SpecCache.           *)
(***************************************************************************)

\* The key holds an entry that get and has would report: present and not
\* past its expiry.
Live(s, t, key) == MapHas(s, key) /\ ~(t > s[key].expiresAt)

\* C25: delete(k) returns true exactly when it removed a live entry: false
\* for an absent key and for a key whose entry has expired, whether or not
\* the entry has been evicted yet.
C25_DeleteTrueIffLive ==
    [][ret'.op = "delete" => (ret'.hit <=> Live(store, now, ret'.key))]_vars

\* C26: ttl(k) returns -1 exactly when has(k) is false, the instant
\* now = expiresAt and a ttl of 0 included, and expiresAt - now otherwise.
C26_TtlAgreesWithHas ==
    ret.op = "ttl" =>
        /\ (ret.remaining = -1) <=> ~Cache_has(store, now, ret.key).result
        /\ ret.remaining # -1 => ret.remaining = store[ret.key].expiresAt - now

\* The stores that differ from s only by lacking some of the entries of s
\* that are expired at time t: what is left of s after sweeps at any moments.
SweptVariants(s, t) ==
    {[k \in DOMAIN s \ D |-> s[k]] :
        D \in SUBSET {k \in DOMAIN s : t > s[k].expiresAt}}

\* get, has and ttl answer alike on the two stores, and each operation of the
\* cache leaves the second a swept variant of the first.
SweepUnobservable(s, s2, t) ==
    /\ \A k \in Keys :
          /\ Cache_get(s2, t, k).hit = Cache_get(s, t, k).hit
          /\ Cache_get(s2, t, k).data = Cache_get(s, t, k).data
          /\ Cache_has(s2, t, k).result = Cache_has(s, t, k).result
          /\ Cache_ttl(s2, t, k) = Cache_ttl(s, t, k)
          /\ Cache_get(s2, t, k).store \in SweptVariants(Cache_get(s, t, k).store, t)
          /\ Cache_has(s2, t, k).store \in SweptVariants(Cache_has(s, t, k).store, t)
          /\ Cache_delete(s2, k).store \in SweptVariants(Cache_delete(s, k).store, t)
          /\ \A v \in Values, ttl \in Ttls :
                Cache_set(s2, t, k, v, ttl) \in
                    SweptVariants(Cache_set(s, t, k, v, ttl), t)
    /\ Cache_clear(s2) \in SweptVariants(Cache_clear(s), t)
    /\ s2 \in SweptVariants(s, t + 1)

\* C30: the sweep removes only entries that are already expired, and whatever
\* sweeps have or have not run, every get, has and ttl call returns what it
\* returns in the run without the sweep: from any store the cache reaches,
\* the store with any of its expired entries swept stays indistinguishable
\* under every operation and as time passes.
C30_SweepIsUnobservable ==
    /\ Cache_cleanup(store, now) \in SweptVariants(store, now)
    /\ \A s2 \in SweptVariants(store, now) : SweepUnobservable(store, s2, now)

\* A sweep removed an expired entry and left a live one in the store.
C30_Witness ==
    /\ ret.op = "cleanup" /\ ret.hit
    /\ \E k \in Keys : Live(store, now, k)

(***************************************************************************)
(* Claims about the HTTP read routes, stated for SpecRoutes.               *)
(***************************************************************************)

\* C27: HTTP reads never call the provider inside a request: a read is
\* answered from the cache, with meta.cached = true when the key holds a live
\* entry, and issues no provider call, so every provider call is the
\* scheduler's.
C27_ReadsNeverCallProvider ==
    /\ ret.op = "http" => (~ret.fetch /\ (ret.live => ret.cached))
    /\ \A c \in BagToSet(inflight) : c \in Calls

\* C27 as amended: a read of a key holding a live entry is answered from the
\* cache with meta.cached = true and issues no provider call; a read of a key
\* without one issues a provider call from the route, and its answer is cached
\* and returned with meta.cached = false.
C27_CacheFirstReads ==
    /\ ret.op = "http" =>
           IF ret.live
           THEN /\ ret.cached /\ ~ret.fetch
                /\ ret.data = store[KindKey(ret.kind)].data
           ELSE /\ ~ret.cached /\ ret.fetch
                /\ BagIn(RouteCall(ret.kind), inflight)
    /\ ret.op = "httpAnswer" =>
           /\ ~ret.cached
           /\ CacheAnswers(store, now, ret.kind, ret.data)

\* A read found the entry the scheduler had written and was answered from it
\* while the scheduler's next call of the kind was in flight.
C27_Witness ==
    /\ ret.op = "http" /\ ret.kind = "listings"
    /\ ret.live /\ ret.cached
    /\ InFlightOf("listings") = 1
    /\ now > 0

(***************************************************************************)
(* Claims about the shutdown sequence, stated for SpecShutdown.            *)
(***************************************************************************)

\* The calls of a shutdown step that close a transport: the WebSocket server
\* (closeWebSocket) and the HTTP server it is attached to (server.close).
TransportSteps == {"closeWebSocket", "server.close"}

ShutdownStep == ret.op \in {"shutdown", "destroy"}

\* C28: the shutdown sequence runs Scheduler.stop(), then Cache.destroy(),
\* then closes the transport: whenever a transport is closed the cache has
\* been destroyed before, and the scheduler stopped before that; a second
\* shutdown request while one is in progress performs no step.
C28_StopDestroyThenClose ==
    ShutdownStep =>
        /\ \A i \in 1..Len(ret.steps) :
               ret.steps[i] \in TransportSteps =>
                   \/ \E j \in 1..(i - 1) : ret.steps[j] = "cache.destroy"
                   \/ (~cleanupInterval /\ "cache.destroy" \notin Range(ret.steps))
        /\ "cache.destroy" \in Range(ret.steps) => ~isRunning
        /\ (ret.op = "shutdown" /\ ret.inProgress) => ret.steps = <<>>

\* C28 as amended: the sequence runs Scheduler.stop(), then closes the
\* WebSocket server and waits for it, then Cache.destroy(), then closes the
\* HTTP server; a second shutdown request while one is in progress performs no
\* step.
C28_StopCloseWsDestroyCloseHttp ==
    /\ ret.op = "shutdown" =>
           IF ret.inProgress
           THEN ret.steps = <<>>
           ELSE /\ ret.steps = <<"scheduler.stop", "closeWebSocket">>
                /\ ~isRunning /\ intervals = <<>> /\ callbacks = <<>>
                /\ cleanupInterval
    /\ ret.op = "destroy" =>
           /\ ret.steps = <<"cache.destroy", "server.close">>
           /\ ~isRunning /\ intervals = <<>> /\ callbacks = <<>>
           /\ ~cleanupInterval /\ store = EmptyMap

\* A second termination signal arrived after the first had stopped the
\* scheduler and before the cache was destroyed.
C28_Witness ==
    /\ ret.op = "shutdown" /\ ret.inProgress
    /\ cleanupInterval
    /\ ~isRunning

(***************************************************************************)
(* Best-effort sends, stated for SpecFanout.                               *)
(***************************************************************************)

\* Every open member of a room an announcement addresses has its frame,
\* whatever the state of the room's other members.
OpenMembersServed ==
    /\ ListingsAnnounced =>
           \A c \in Clients : \A i \in 1..Len(ret.payload) :
               (readyState[c] = "OPEN"
                    /\ InRoom(c, ToLowerCase(ret.payload[i].symbol)))
                   => Len(FramesFor(c, "price_update", ret.payload[i].id)) = 1
    /\ Announced("globalMetrics") =>
           \A c \in Clients :
               (readyState[c] = "OPEN" /\ c \in getMarketSubscribers(RM))
                   => frames[c] = <<MarketUpdateFrame>>

\* C29: sends are best-effort: a frame is written to a connection only if it
\* reports itself OPEN at send time; a broadcast that meets a non-open member
\* writes nothing to it, still delivers to every open member, and leaves the
\* registry as it was; a connection that starts closing stays registered
\* until its close event is handled.
C29_BestEffortSends ==
    [][/\ \A c \in Clients :
              frames'[c] # <<>> => (readyState[c] = "OPEN" /\ readyState'[c] = "OPEN")
       /\ ret'.op = "refresh" => (UNCHANGED roomVars /\ OpenMembersServed')
       /\ ret'.op = "closing" => UNCHANGED roomVars]_vars

\* A listings announcement met a closing connection still registered in a
\* symbol's room: it got nothing, an open member of the same room got its
\* price update.
C29_Witness ==
    /\ ListingsAnnounced
    /\ \E c1, c2 \in Clients : \E i \in 1..Len(ret.payload) :
          /\ readyState[c1] = "CLOSING"
          /\ InRoom(c1, ToLowerCase(ret.payload[i].symbol))
          /\ frames[c1] = <<>>
          /\ readyState[c2] = "OPEN"
          /\ InRoom(c2, ToLowerCase(ret.payload[i].symbol))
          /\ Len(FramesFor(c2, "price_update", ret.payload[i].id)) = 1

(***************************************************************************)
(* Algebraic claims about the registry, stated for SpecRooms.              *)
(***************************************************************************)

\* unsubscribe(c) with no symbols, then deletion of c's clientSubscriptions
\* entry and of its market room membership.
UnsubscribeAllThenForget(rm, c) ==
    LET u == RoomManager_unsubscribe(rm, c, <<>>).rm
    IN [u EXCEPT !.clientSubscriptions = MapDelete(@, c),
                 !.marketRoom = @ \ {c}]

\* C31: removeClient(c) on a connection the registry does not know leaves the
\* three indexes unchanged; removeClient is idempotent; on a known connection
\* it ends in the state of unsubscribe(c) with no symbols followed by the
\* deletion of c's reverse-index entry and market room membership.
C31_RemoveClientNoOpOnUnknown ==
    /\ \A c \in Clients :
           LET r == RoomManager_removeClient(RM, c) IN
           /\ ~MapHas(clientSubscriptions, c) => r = RM
           /\ RoomManager_removeClient(r, c) = r
           /\ MapHas(clientSubscriptions, c) => r = UnsubscribeAllThenForget(RM, c)
    /\ ret.op = "removeClient" =>
           /\ ~MapHas(clientSubscriptions, ret.client)
           /\ ret.client \notin marketRoom
           /\ ~ret.known => DOMAIN assetRooms = ret.roomsBefore

\* removeClient ran on a connection without a registry entry while another
\* connection held subscriptions.
C31_Witness ==
    /\ ret.op = "removeClient"
    /\ ~ret.known
    /\ assetRooms # EmptyMap
    /\ marketRoom # {}

\* C34: the forward and the reverse index describe the same fact: c is in the
\* room of s if and only if s is among c's subscriptions, for every connection
\* and every normalized symbol, after any sequence of subscribe, unsubscribe
\* and removeClient calls; both indexes hold normalized symbols only.
C34_ForwardReverseAgree ==
    /\ \A c \in Clients : \A s \in LowerSymbols :
           c \in getAssetSubscribers(RM, s)
               <=> s \in Range(getClientSubscriptions(RM, c))
    /\ DOMAIN assetRooms \subseteq LowerSymbols
    /\ \A c \in DOMAIN clientSubscriptions :
           Range(clientSubscriptions[c]) \subseteq LowerSymbols

\* Both connections hold btc, one of them also eth, after one of them
\* unsubscribed.
C34_Witness ==
    /\ ret.op = "unsubscribe"
    /\ MapHas(assetRooms, "btc") /\ assetRooms["btc"] = Clients
    /\ MapHas(assetRooms, "eth") /\ Cardinality(assetRooms["eth"]) = 1

\* The list without its repeated elements, first occurrences kept.
RECURSIVE Distinct(_)
Distinct(q) ==
    IF q = <<>> THEN <<>>
    ELSE LET front == Distinct(SubSeq(q, 1, Len(q) - 1))
         IN SetAdd(front, q[Len(q)])

AllOpen == [c \in Clients |-> "OPEN"]

\* C38: subscribe is idempotent on the registry: subscribe(c, S) applied
\* twice, or with S naming a symbol several times or in several casings,
\* leaves the three indexes as one application with the distinct lower-cased
\* symbols does; c's set holds each symbol once, and a price update of a
\* subscribed symbol is written to c once.
C38_SubscribeIdempotent ==
    \A c \in Clients : \A S \in AssetLists :
        LET once == RoomManager_subscribe(RM, c, S).rm
            twice == RoomManager_subscribe(once, c, S).rm
            plain == RoomManager_subscribe(RM, c, Distinct(MapToLowerCase(S))).rm
            subs == once.clientSubscriptions[c]
        IN /\ twice = once
           /\ plain = once
           /\ Cardinality(Range(subs)) = Len(subs)
           /\ \A i \in 1..Len(S) :
                  Len(broadcastPriceUpdate(once, AllOpen,
                          [id |-> 1, symbol |-> ToLowerCase(S[i]),
                           price |-> 1, timestamp |-> 0])[c]) = 1

\* subscribe was called with one symbol in two casings by a connection that
\* already held it.
C38_Witness ==
    /\ ret.op = "subscribe"
    /\ ret.args \in {<<"btc", "BTC">>, <<"BTC", "btc">>}
    /\ "btc" \in Range(ret.subsBefore)
    /\ getClientSubscriptions(RM, ret.client) = ret.subsBefore

RegistryStep == ret.op \in {"subscribe", "unsubscribe", "removeClient"}

\* C39: subscribe, unsubscribe and removeClient applied to c leave every other
\* connection as it was: its clientSubscriptions entry, its membership of
\* every room and of the market room; so a room shared with another
\* connection survives c's departure.
C39_OtherConnectionsUntouched ==
    [][RegistryStep' =>
          \A c2 \in Clients \ {ret'.client} :
              /\ MapHas(clientSubscriptions', c2) = MapHas(clientSubscriptions, c2)
              /\ getClientSubscriptions(RM', c2) = getClientSubscriptions(RM, c2)
              /\ \A s \in LowerSymbols :
                     (c2 \in getAssetSubscribers(RM', s))
                         = (c2 \in getAssetSubscribers(RM, s))
              /\ (c2 \in marketRoom') = (c2 \in marketRoom)]_vars

\* A connection that shared the btc room with another was removed, and the
\* other is still in the room.
C39_Witness ==
    /\ ret.op = "removeClient"
    /\ "btc" \in Range(ret.subsBefore)
    /\ MapHas(assetRooms, "btc")
    /\ assetRooms["btc"] = Clients \ {ret.client}
    /\ assetRooms["btc"] # {}

(***************************************************************************)
(* Claims about start() and the listeners, stated for SpecScheduler and    *)
(* SpecStop.                                                               *)
(***************************************************************************)

\* What start() from Stopped leaves, and what a successful refresh does.
StartedAllKinds ==
    /\ (ret.op = "start" /\ ~ret.wasRunning) =>
           /\ isRunning
           /\ Len(intervals) = 3
           /\ {intervals[i].kind : i \in 1..3} = Kinds
           /\ \A k \in Kinds : BagIn(Call(k, now), inflight)
           /\ BagCardinality(inflight) = ret.callsBefore + 3
    /\ (ret.op = "refresh" /\ ret.ok) =>
           /\ CacheAnswers(store, now, ret.kind, ret.payload)
           /\ ret.notified = callbacks

\* C32 (SpecScheduler): start() from Stopped issues one immediate provider
\* call per refresh kind and arms the three timers, whatever the outcomes: a
\* kind's answer is cached and announced whether the other kinds' calls have
\* failed or are still outstanding, and no outcome of a fetch changes whether
\* the scheduler is Running or its timers.
C32_StartFetchesIndependently ==
    [][/\ StartedAllKinds'
       /\ ret'.op = "refresh" => UNCHANGED <<isRunning, intervals, callbacks>>]_vars

\* The globalMetrics call of start() was answered, cached and announced while
\* the listings call of the same start() was still outstanding and the
\* fearGreed call had failed.
C32_Witness ==
    /\ ret.op = "refresh" /\ ret.ok /\ ret.kind = "globalMetrics"
    /\ ret.notified # <<>>
    /\ isRunning
    /\ now > 0
    /\ BagIn(Call("listings", 0), inflight)
    /\ InFlightOf("fearGreed") = 0
    /\ ~MapHas(store, FearGreedKey)

\* C33 (SpecListeners): the function onUpdate returns removes exactly that
\* listener and leaves the others registered, in their order; an announcement
\* invokes exactly the listeners registered when it is made, so neither a
\* removed listener nor one registered afterwards is invoked for it; and
\* registering or removing a listener invokes nobody.
C33_RemoverRemovesExactlyThat ==
    [][/\ ret'.op = "offUpdate" =>
              /\ callbacks' = SelectSeq(callbacks, LAMBDA l : l # ret'.cb)
              /\ frames' = NoFrames /\ UNCHANGED store
       /\ ret'.op = "onUpdate" =>
              /\ Range(callbacks') = Range(callbacks) \cup {ret'.cb}
              /\ SelectSeq(callbacks', LAMBDA l : l # ret'.cb)
                     = SelectSeq(callbacks, LAMBDA l : l # ret'.cb)
              /\ frames' = NoFrames /\ UNCHANGED store
       /\ (ret'.op = "refresh" /\ ret'.ok) =>
              /\ ret'.notified = callbacks
              /\ UNCHANGED callbacks]_vars

\* A registered listener was removed through the function onUpdate gave it
\* while the WebSocket layer's listener and another one stayed registered.
C33_Witness ==
    /\ ret.op = "offUpdate" /\ ret.registered
    /\ ret.cb \notin Range(callbacks)
    /\ WsListener \in Range(callbacks)
    /\ Len(callbacks) = 2

(***************************************************************************)
(* Claims about a stop()/start() cycle, stated for SpecRestart.            *)
(***************************************************************************)

\* C37: a listener registered before stop() is never invoked after it, even
\* if start() is called later: stop() empties the listeners, only onUpdate
\* registers one, and the WebSocket layer's listener, once gone, never comes
\* back; after a stop()/start() cycle a refresh still writes the cache and is
\* announced to exactly the listeners registered since, and with the
\* WebSocket layer's listener gone no frame is sent.
C37_StopForgetsListenersForGood ==
    [][/\ (ret'.op = "stop" /\ ret'.wasRunning) => callbacks' = <<>>
       /\ ret'.op # "onUpdate" => Range(callbacks') \subseteq Range(callbacks)
       /\ WsListener \notin Range(callbacks) => WsListener \notin Range(callbacks')
       /\ (ret'.op = "refresh" /\ ret'.ok) =>
              /\ CacheAnswers(store', now', ret'.kind, ret'.payload)
              /\ ret'.notified = callbacks
              /\ WsListener \notin Range(callbacks) => frames' = NoFrames]_vars

\* After a stop()/start() cycle a listings refresh was cached and announced
\* to the listener registered since, and an open connection in the btc room
\* got no frame.
C37_Witness ==
    /\ ret.op = "refresh" /\ ret.ok /\ ret.kind = "listings"
    /\ isRunning
    /\ ret.notified = <<LateListener>>
    /\ CacheAnswers(store, now, "listings", ret.payload)
    /\ \E c \in Clients : readyState[c] = "OPEN" /\ InRoom(c, "btc")
    /\ frames = NoFrames

(***************************************************************************)
(* No leak past disconnect, stated for SpecFanout.                         *)
(***************************************************************************)

\* The frames the listener would write for the last announcement if every
\* connection reported itself OPEN: one per send attempt.
SendAttempts == wsListener(RM, AllOpen, ret.kind, ret.payload, now)

\* C40: once the close event of a connection has been handled the connection
\* is in no index of the registry in any later state, and no later
\* announcement leads to a send attempt to it, whatever refreshes and frames
\* of other connections follow.
C40_NoLeakPastDisconnect ==
    \A c \in Clients :
        readyState[c] = "CLOSED" =>
            /\ ~MapHas(clientSubscriptions, c)
            /\ c \notin marketRoom
            /\ \A s \in DOMAIN assetRooms : c \notin assetRooms[s]
            /\ frames[c] = <<>>
            /\ (ret.op = "refresh" /\ ret.ok) => SendAttempts[c] = <<>>

\* The close event of a connection holding subscriptions was handled while
\* another connection stayed in the btc room and a refresh was outstanding.
C40_Witness ==
    /\ ret.op = "close" /\ ret.subscribed
    /\ readyState[ret.client] = "CLOSED"
    /\ \E c2 \in Clients \ {ret.client} : InRoom(c2, "btc")
    /\ inflight # EmptyBag

(***************************************************************************)
(* Overlapping fetches, stated for SpecAllSucceed.                         *)
(***************************************************************************)

\* While Running: when the newest provider call of the kind was started (at
\* start() or at the kind's last timer tick), and the times after t at which a
\* call of the kind was started.
LastStarted(kind) ==
    LET i == CHOOSE j \in 1..Len(intervals) : intervals[j].kind = kind
    IN intervals[i].due - Ttl(kind)
StartedAfter(kind, t) ==
    {u \in (t + 1)..LastStarted(kind) :
         (LastStarted(kind) - u) % Ttl(kind) = 0}

\* C35: a kind's cached value never regresses when fetches overlap: when the
\* result of a call is written, every call of the kind started after it is
\* still outstanding, so none has been written before.
C35_NoRegressOnOverlap ==
    [][\A call \in Calls :
           (/\ ret'.op = "refresh" /\ ret'.ok
            /\ CopiesIn(call, inflight) > CopiesIn(call, inflight'))
           => \A u \in StartedAfter(call.kind, call.at) :
                  BagIn(Call(call.kind, u), inflight)]_vars

(***************************************************************************)
(* GET /listings and its parameters, stated for SpecListings.              *)
(***************************************************************************)

\* C36: a listings response served from the cache matches the request: it is
\* the provider's answer to the request's own start, limit, sort and sort
\* direction, for any interleaving of requests and scheduler refreshes.
C36_CachedListingsMatchRequest ==
    (ret.op = "listings" /\ ret.cached) =>
        ret.data = cmcClient_getListings(ret.query.start, ret.query.limit,
                                         ret.query.sort, ret.query.sort_dir)

====
